---- MODULE Spec2Model ----
(***************************************************************************)
(* Verification model of the DistortSignals data tooling:                  *)
(*   - scripts/verify_data.py: the Phase A / Phase B runners, the per-check *)
(*     failure isolation (safe_check, qdf) and the verdict of main();       *)
(*   - scripts/dxy_migration_phase3.py: the calc_dxy_range_1m SQL function  *)
(*     (pivot of the six FX components, validity filter, price formula,     *)
(*     upsert into data_bars, result object, exception block);              *)
(*   - scripts/backfill_missing_data.py: insert_bars_batch, the writer of   *)
(*     the component bars that calc_dxy_range_1m reads;                     *)
(*   - scripts/verify_data.py: the checks themselves, computed on the rows  *)
(*     of the tables they query;                                            *)
(*   - scripts/pause_resume_asset.py: the pause flag of data_ingest_state.  *)
(*   - scripts/dxy_migration_phase4_regenerate.py: main, step by step, on   *)
(*     one connection and its transaction;                                 *)
(*   - ds_shared/circuit_breaker.py: CircuitBreaker with calls in flight;  *)
(*   - ds_shared/retries.py: the two retry helpers.                        *)
(*                                                                         *)
(* A DataFrame is a sequence of rows.  A nullable SQL/Python value is a set *)
(* with at most one element: {} is NULL/None, {v} is the value v.           *)
(***************************************************************************)
EXTENDS Integers, Sequences, FiniteSets, TLC

(***************************************************************************)
(* Bounds of the model                                                     *)
(***************************************************************************)
\* how many anomalies one run meets: query slots whose result is not the clean
\* one, plus queries / checks that fail
MaxAnomalies == 1
\* 1m timestamps of the bar store: 0 .. MaxTs
MaxTs == 1
\* the clock of the store runs from 0 to MaxClock
MaxClock == 1
\* rows of a table put under the checks of verify_data.py
MaxHeap == 3
\* 1m bars that an otherwise complete hour lacks
MaxGone == 2
MaxAligned == 2
MaxOhlc == 2
MaxListed == 2
MaxRetries == 2
MaxTime == 4
MaxThreshold == 2
MaxTasks == 2
MaxGapBars == 2

(***************************************************************************)
(* Program constants of verify_data.py                                     *)
(***************************************************************************)
staleness_warning_minutes == 5
staleness_critical_minutes == 15
grace_days == 7
hist_years == 3
YearDays == 365
dxy_symbol == "DXY"

\* "now" of the verification run, in days since the first possible bar
NowDay == hist_years * YearDays + 30

----------------------------------------------------------------------------
(***************************************************************************)
(* Nullable values and DataFrames                                          *)
(***************************************************************************)
NULL == {}
Some(v) == {v}
IsNull(x) == x = {}
Val(x) == CHOOSE v \in x : TRUE

\* pd.DataFrame()
EmptyDF == << >>

\* one result row: the offending symbol and the check's count column
Row(sym, n) == [canonical_symbol |-> sym, value |-> n]

\* one row of the staleness query: staleness_minutes is NULL without data
StaleRow(sym, m) == [canonical_symbol |-> sym, staleness_minutes |-> m]

\* df.empty
IsEmpty(df) == Len(df) = 0

\* (df[col] > 0).any()
AnyPositive(df) == \E i \in DOMAIN df : df[i].value > 0

\* Python truthiness of "not x" for x in {None, True, False}
PyNot(x) == IF IsNull(x) THEN TRUE ELSE ~ Val(x)

----------------------------------------------------------------------------
(***************************************************************************)
(* verify_data.py: what the store answers to each query of a run           *)
(***************************************************************************)
\* queries of run_phase_a, in the order of their calls
SlotsA == << "freshness", "duplicates_data_bars", "duplicates_derived_bars",
             "alignment_5m", "alignment_1h", "alignment_1d",
             "agg_coverage_5m_strict", "agg_coverage_1h_strict",
             "dxy_counts_1m", "dxy_counts_5m", "dxy_counts_1h", "dxy_counts_1d",
             "timestamp_monotonicity", "future_timestamps",
             "enhanced_ohlc_integrity", "volume_integrity",
             "price_continuity", "cross_timeframe_consistency" >>

\* queries of run_phase_b, in the order of their calls
SlotsB == << "coverage_check", "integrity_1m", "counts_1m", "gap_density_1m",
             "enhanced_ohlc_integrity", "volume_integrity",
             "dxy_counts_1m", "dxy_counts_5m", "dxy_counts_1h",
             "dxy_component_dependency",
             "dxy_alignment_5m", "dxy_alignment_1h" >>

Range(seq) == { seq[i] : i \in DOMAIN seq }
NamesA == Range(SlotsA)
NamesB == Range(SlotsB)

\* the registry query of get_active_assets, which both phases run first
ActiveAssets == "active_assets"

\* coverage_check_sql: min(ts_utc) of the 1m bars against
\* now - hist_years + grace_days; one row whatever the table holds
RequiredMinTs == NowDay - hist_years * YearDays + grace_days

CoverageQuery(earliest) ==
  << [ earliest_ts |-> earliest,
       required_min_ts |-> RequiredMinTs,
       sufficient_coverage |->
         IF IsNull(earliest) THEN NULL
         ELSE Some(Val(earliest) <= RequiredMinTs) ] >>

\* what each query returns on a store without defects
CleanA(slot) ==
  CASE slot = "freshness" -> << StaleRow("EURUSD", Some(1)) >>
    [] slot \in {"dxy_counts_1m", "dxy_counts_5m", "dxy_counts_1h", "dxy_counts_1d"}
         -> << Row(dxy_symbol, 10) >>
    [] OTHER -> EmptyDF

CleanB(slot) ==
  CASE slot = "coverage_check" -> CoverageQuery(Some(RequiredMinTs))
    [] slot = "counts_1m" -> << Row("EURUSD", 10) >>
    [] slot = "gap_density_1m" -> << Row("EURUSD", 0) >>
    [] slot \in {"dxy_counts_1m", "dxy_counts_5m", "dxy_counts_1h"}
         -> << Row(dxy_symbol, 10) >>
    [] slot = "dxy_component_dependency" -> << Row(dxy_symbol, 0) >>
    [] OTHER -> EmptyDF

\* the other results each query can produce, by the shape of its SQL
DefectsA ==
     { << "freshness", << StaleRow("EURUSD", m) >> >> :
          m \in { Some(staleness_warning_minutes + 1),
                  Some(staleness_critical_minutes + 1), NULL } }
  \cup { << s, << Row("EURUSD", 1) >> >> :
          s \in { "duplicates_data_bars", "duplicates_derived_bars",
                  "alignment_5m", "alignment_1h", "alignment_1d",
                  "agg_coverage_5m_strict", "agg_coverage_1h_strict",
                  "timestamp_monotonicity", "future_timestamps",
                  "enhanced_ohlc_integrity", "volume_integrity",
                  "price_continuity", "cross_timeframe_consistency" } }
  \cup { << s, EmptyDF >> :
          s \in { "dxy_counts_1m", "dxy_counts_5m", "dxy_counts_1h", "dxy_counts_1d" } }

DefectsB ==
     { << "coverage_check", CoverageQuery(e) >> :
          e \in { NULL, Some(RequiredMinTs + 1), Some(NowDay - YearDays) } }
  \cup { << s, << Row("EURUSD", 1) >> >> :
          s \in { "integrity_1m", "gap_density_1m", "enhanced_ohlc_integrity",
                  "volume_integrity", "dxy_alignment_5m", "dxy_alignment_1h" } }
  \cup { << s, << Row(dxy_symbol, 1) >> >> :
          s \in { "dxy_component_dependency", "dxy_alignment_5m", "dxy_alignment_1h" } }
  \cup { << s, EmptyDF >> :
          s \in { "counts_1m", "gap_density_1m",
                  "dxy_counts_1m", "dxy_counts_5m", "dxy_counts_1h" } }

\* defects of the whole store, tagged with the phase whose query sees them
Defects == { << "defect", "A", d[1], d[2] >> : d \in DefectsA }
      \cup { << "defect", "B", d[1], d[2] >> : d \in DefectsB }

\* the ways a query or a check can fail: the query errors inside qdf, or the
\* check function raises
Faults == { << "fault", "A", s, m >> : s \in NamesA \cup {ActiveAssets},
                                      m \in {"qfail", "raise"} }
     \cup { << "fault", "B", s, m >> : s \in NamesB \cup {ActiveAssets},
                                      m \in {"qfail", "raise"} }

Anomalies == Defects \cup Faults

\* the subsets of S with at most k elements
RECURSIVE UpTo(_, _)
UpTo(S, k) ==
  IF k = 0 THEN { {} }
  ELSE LET smaller == UpTo(S, k - 1)
       IN  smaller \cup { T \cup {x} : T \in smaller, x \in S }

\* at most one defect and one fault for each (phase, slot)
OnePerSlot(X) ==
  \A d, e \in X : (d[1] = e[1] /\ d[2] = e[2] /\ d[3] = e[3]) => d = e

Hits(X, kind, phase, s) == { x \in X : x[1] = kind /\ x[2] = phase /\ x[3] = s }

StoreOf(X, phase, names) ==
  [ s \in names |->
      IF Hits(X, "defect", phase, s) # {}
      THEN (CHOOSE d \in Hits(X, "defect", phase, s) : TRUE)[4]
      ELSE IF phase = "A" THEN CleanA(s) ELSE CleanB(s) ]

ModeOf(X, phase, names) ==
  [ s \in names \cup {ActiveAssets} |->
      IF Hits(X, "fault", phase, s) # {}
      THEN (CHOOSE f \in Hits(X, "fault", phase, s) : TRUE)[4]
      ELSE "ok" ]

----------------------------------------------------------------------------
(***************************************************************************)
(* verify_data.py: qdf, the checks, safe_check                             *)
(***************************************************************************)
\* qdf: the rows of the query, or an empty DataFrame when the query errors
qdf(mode, rows) == IF mode = "qfail" THEN EmptyDF ELSE rows

\* a value a check returned, or the exception it raised
Returned(v) == [ raised |-> FALSE, value |-> v ]
Raised == [ raised |-> TRUE ]

\* every check but the staleness one returns what qdf gives it
check(mode, rows) ==
  IF mode = "raise" THEN Raised ELSE Returned(qdf(mode, rows))

CountAtLeast(df, threshold) ==
  Cardinality({ i \in DOMAIN df :
                  /\ ~ IsNull(df[i].staleness_minutes)
                  /\ Val(df[i].staleness_minutes) >= threshold })

\* number of rows whose staleness_minutes is above the threshold; a NULL
\* staleness compares false
CountAbove(df, threshold) ==
  Cardinality({ i \in DOMAIN df :
                  /\ ~ IsNull(df[i].staleness_minutes)
                  /\ Val(df[i].staleness_minutes) > threshold })

\* check_staleness_with_thresholds: the pair (df, counts)
check_staleness_with_thresholds(mode, rows) ==
  IF mode = "raise" THEN Raised
  ELSE LET df == qdf(mode, rows)
           counts ==
             IF ~ IsEmpty(df)
             THEN [ warning  |-> CountAbove(df, staleness_warning_minutes),
                    critical |-> CountAbove(df, staleness_critical_minutes) ]
             ELSE [ warning |-> 0, critical |-> 0 ]
       IN  Returned([ pair |-> TRUE, df |-> df, counts |-> counts ])

\* safe_check: the check's value, or an empty DataFrame when it raised
safe_check(outcome) ==
  IF outcome.raised THEN EmptyDF ELSE outcome.value

\* "a, b = v" succeeds on a pair; an empty DataFrame has no columns to unpack
IsPair(v) == DOMAIN v = {"pair", "df", "counts"}

\* result_flag
result_flag(df) == ~ IsEmpty(df)

\* get_active_assets raises when the registry query gives no rows
get_active_assets_raises(mode) == mode # "ok"

----------------------------------------------------------------------------
(***************************************************************************)
(* verify_data.py: run_phase_a, run_phase_b                                *)
(***************************************************************************)
\* the outcome of a phase: the checks it invoked, in order, and either the
\* dictionary it returned or the exception that left it
PhaseAborted(invoked) == [ aborted |-> TRUE, calls |-> invoked ]
PhaseReturned(invoked, res) == [ aborted |-> FALSE, calls |-> invoked, result |-> res ]

\* problem_flags of run_phase_a
problems_a(data, staleness_counts) ==
  [ duplicates_data_bars_1m  |-> result_flag(data["duplicates_data_bars"]),
    duplicates_derived       |-> result_flag(data["duplicates_derived_bars"]),
    misaligned_5m            |-> ~ IsEmpty(data["alignment_5m"]) /\ AnyPositive(data["alignment_5m"]),
    misaligned_1h            |-> ~ IsEmpty(data["alignment_1h"]) /\ AnyPositive(data["alignment_1h"]),
    misaligned_1d            |-> ~ IsEmpty(data["alignment_1d"]) /\ AnyPositive(data["alignment_1d"]),
    bad_5m_coverage_strict   |-> ~ IsEmpty(data["agg_coverage_5m_strict"])
                                 /\ AnyPositive(data["agg_coverage_5m_strict"]),
    bad_1h_coverage_strict   |-> ~ IsEmpty(data["agg_coverage_1h_strict"])
                                 /\ AnyPositive(data["agg_coverage_1h_strict"]),
    dxy_missing_data         |-> \/ IsEmpty(data["dxy_counts_1m"])
                                 \/ IsEmpty(data["dxy_counts_5m"])
                                 \/ IsEmpty(data["dxy_counts_1h"])
                                 \/ IsEmpty(data["dxy_counts_1d"]),
    non_monotonic_timestamps |-> result_flag(data["timestamp_monotonicity"]),
    future_timestamps        |-> result_flag(data["future_timestamps"]),
    enhanced_ohlc_issues     |-> result_flag(data["enhanced_ohlc_integrity"]),
    volume_issues            |-> result_flag(data["volume_integrity"]),
    large_price_jumps        |-> result_flag(data["price_continuity"]),
    cross_timeframe_mismatch |-> result_flag(data["cross_timeframe_consistency"]),
    staleness_warning        |-> staleness_counts.warning > 0,
    staleness_critical       |-> staleness_counts.critical > 0 ]

run_phase_a(store, mode) ==
  IF get_active_assets_raises(mode[ActiveAssets])
  THEN PhaseAborted(<< >>)
  ELSE
    LET st == safe_check(check_staleness_with_thresholds(mode["freshness"],
                                                        store["freshness"]))
    IN  IF ~ IsPair(st)
        THEN PhaseAborted(<< "freshness" >>)
        ELSE
          LET data == [ s \in NamesA |->
                          IF s = "freshness" THEN st.df
                          ELSE safe_check(check(mode[s], store[s])) ]
          IN  PhaseReturned(SlotsA,
                [ phase |-> "A",
                  problem_flags |-> problems_a(data, st.counts),
                  staleness_counts |-> st.counts,
                  data |-> data ])

\* a guardrail that reads an empty answer of the coverage query as "passed":
\* the variant CoverageGuardrail must tell apart from coverage_guardrail
coverage_guardrail_empty_passes(coverage_check) ==
  IF ~ IsEmpty(coverage_check) /\ PyNot(coverage_check[1].sufficient_coverage)
  THEN FALSE
  ELSE TRUE

\* the coverage guardrail of run_phase_b
coverage_guardrail(coverage_check) ==
  IF IsEmpty(coverage_check) \/ PyNot(coverage_check[1].sufficient_coverage)
  THEN FALSE
  ELSE TRUE

\* df[df["canonical_symbol"] == CFG.dxy_symbol] if not df.empty else df
only_dxy(df) ==
  IF ~ IsEmpty(df)
  THEN SelectSeq(df, LAMBDA r : r.canonical_symbol = dxy_symbol)
  ELSE df

\* problem_flags of run_phase_b
problems_b(data, coverage_guardrail_passed) ==
  [ insufficient_historical_coverage |-> ~ coverage_guardrail_passed,
    integrity_issues_1m  |-> result_flag(data["integrity_1m"]),
    enhanced_ohlc_issues |-> result_flag(data["enhanced_ohlc_integrity"]),
    volume_issues        |-> result_flag(data["volume_integrity"]),
    dxy_component_dependency_fail |->
         ~ IsEmpty(data["dxy_component_dependency"])
      /\ data["dxy_component_dependency"][1].value > 0,
    dxy_missing_5m_or_1h |-> IsEmpty(data["dxy_counts_5m"]) \/ IsEmpty(data["dxy_counts_1h"]),
    dxy_misaligned_5m    |-> ~ IsEmpty(data["dxy_alignment_5m"])
                             /\ data["dxy_alignment_5m"][1].value > 0,
    dxy_misaligned_1h    |-> ~ IsEmpty(data["dxy_alignment_1h"])
                             /\ data["dxy_alignment_1h"][1].value > 0 ]

run_phase_b(store, mode) ==
  IF get_active_assets_raises(mode[ActiveAssets])
  THEN PhaseAborted(<< >>)
  ELSE
    LET raw  == [ s \in NamesB |-> safe_check(check(mode[s], store[s])) ]
        data == [ s \in NamesB |->
                    IF s \in {"dxy_alignment_5m", "dxy_alignment_1h"}
                    THEN only_dxy(raw[s]) ELSE raw[s] ]
        passed == coverage_guardrail(data["coverage_check"])
    IN  PhaseReturned(SlotsB,
          [ phase |-> "B",
            coverage_guardrail_passed |-> passed,
            problem_flags |-> problems_b(data, passed),
            data |-> data ])

----------------------------------------------------------------------------
(***************************************************************************)
(* The bar store: data_bars, unique on (canonical_symbol, timeframe,       *)
(* ts_utc).  Kept as a set of rows, so that the uniqueness is a property   *)
(* of the writers and not of the representation.                           *)
(***************************************************************************)
Components == {"EURUSD", "USDJPY", "GBPUSD", "USDCAD", "USDSEK", "USDCHF"}
Ts == 0 .. MaxTs
\* values of p_from_utc and of p_to_utc: a range starts at a minute of the
\* store and ends at one, or after the last
Froms == 0 .. MaxTs
Tos == 0 .. MaxTs + 1
\* values of p_derivation_version: the default and a later one
Versions == {1, 2}
\* close prices a delivered provider bar can carry: a non-positive one and a
\* positive one that differs from the price 1 the store starts with
Closes == {0, 2}

Key(r) == << r.canonical_symbol, r.timeframe, r.ts_utc >>

\* the rows of the table stored under a key
RowsAt(bars, key) ==
  { r \in bars : /\ r.ts_utc = key[3]
                 /\ r.canonical_symbol = key[1]
                 /\ r.timeframe = key[2] }

\* the unique constraint of data_bars
UniqueKeys(bars) == Cardinality({ Key(r) : r \in bars }) = Cardinality(bars)

\* insert_bars_batch with one bar: INSERT ... ON CONFLICT DO NOTHING
insert_bars_batch(bars, sym, ts, px, at) ==
  LET row == [ canonical_symbol |-> sym, timeframe |-> "1m", ts_utc |-> ts,
               open |-> px, high |-> px, low |-> px, close |-> px,
               source |-> "massive", ingested_at |-> at, version |-> NULL ]
  IN  IF RowsAt(bars, Key(row)) # {} THEN bars ELSE bars \cup {row}

----------------------------------------------------------------------------
(***************************************************************************)
(* dxy_migration_phase3.py: calc_dxy_range_1m                              *)
(***************************************************************************)
\* prices are fixed-point numbers: the formula keeps 4 decimals in its
\* factors and 3 in the price
FactorScale == 10000
\* 50.14348112
DxyBase == 50143
\* exp(w * ln(2)) for the weight w of each component, times FactorScale
ExpWLn2 == [ EURUSD |-> 6708, USDJPY |-> 10989, GBPUSD |-> 9208,
             USDCAD |-> 10651, USDSEK |-> 10295, USDCHF |-> 10253 ]

\* exp(w * ln(x)) for a close x of 1 or 2
exp_w_ln(sym, x) == IF x = 1 THEN FactorScale ELSE ExpWLn2[sym]

\* the 1m component rows with p_from_utc <= ts_utc < p_to_utc
component_rows(bars, p_from, p_to) ==
  { r \in bars : /\ r.canonical_symbol \in Components
                 /\ r.timeframe = "1m"
                 /\ r.ts_utc >= p_from
                 /\ r.ts_utc < p_to }

\* base_timestamps: SELECT DISTINCT ts_utc of the component rows
base_timestamps(rows) == { r.ts_utc : r \in rows }

\* MAX(...) of a set of numbers, NULL for the empty set
SqlMax(S) == IF S = {} THEN NULL ELSE Some(CHOOSE m \in S : \A x \in S : x <= m)

\* fx_pivoted: GROUP BY ts_utc, and for each group
\* MAX(CASE WHEN canonical_symbol = c THEN close END) for the six components
fx_pivoted(rows) ==
  [ ts \in { r.ts_utc : r \in rows } |->
      LET group == { q \in rows : q.ts_utc = ts }
      IN  [ c \in Components |->
              SqlMax({ r.close : r \in { q \in group : q.canonical_symbol = c } }) ] ]

\* a filter that lets a close of 0 pass: the variant ValidIffAllSixPositive
\* must tell apart from valid_tuple
valid_tuple_zero_passes(t) == \A c \in Components : ~ IsNull(t[c]) /\ Val(t[c]) >= 0

\* WHERE eurusd > 0 AND ... AND usdchf > 0: NULL > 0 is not true
valid_tuple(t) == \A c \in Components : ~ IsNull(t[c]) /\ Val(t[c]) > 0

\* valid_tuples: the groups of fx_pivoted that pass the WHERE
valid_tuples(pivot) == { ts \in DOMAIN pivot : valid_tuple(pivot[ts]) }

\* dxy_bars: 50.14348112 * exp(-0.576 ln eurusd) * ... * exp(0.036 ln usdchf)
dxy_price(t) ==
  LET mul(a, c) == (a * exp_w_ln(c, Val(t[c]))) \div FactorScale
  IN  mul(mul(mul(mul(mul(mul(DxyBase, "EURUSD"), "USDJPY"), "GBPUSD"),
                  "USDCAD"), "USDSEK"), "USDCHF")

\* the row the INSERT proposes for ts
excluded_row(ts, px, at, version) ==
  [ canonical_symbol |-> dxy_symbol, timeframe |-> "1m", ts_utc |-> ts,
    open |-> px, high |-> px, low |-> px, close |-> px,
    source |-> "synthetic", ingested_at |-> at, version |-> Some(version) ]

\* an INSERT without conflict target: the variant IdempotentUpsert must tell
\* apart from conflicting
conflicting_never(bars, row) == {}

\* ON CONFLICT (canonical_symbol, timeframe, ts_utc): the stored rows the
\* proposed row conflicts with
conflicting(bars, row) == RowsAt(bars, Key(row))

\* an update that leaves ingested_at alone: the variant
\* ReinvokeKeepsAllButIngestedAt must tell apart from do_update
do_update_keeps_ingested_at(old, excluded) ==
  [ old EXCEPT !.open = excluded.open, !.high = excluded.high,
               !.low = excluded.low, !.close = excluded.close,
               !.source = "synthetic" ]

\* DO UPDATE SET open, high, low, close = EXCLUDED.*, source = 'synthetic',
\* ingested_at = NOW()
do_update(old, excluded) ==
  [ old EXCEPT !.open = excluded.open, !.high = excluded.high,
               !.low = excluded.low, !.close = excluded.close,
               !.source = "synthetic", !.ingested_at = excluded.ingested_at ]

\* upserted: the table after the INSERT ... ON CONFLICT DO UPDATE of one row
upsert_row(bars, row) ==
  LET hit == conflicting(bars, row)
  IN  IF hit = {} THEN bars \cup {row}
      ELSE (bars \ hit) \cup { do_update(old, row) : old \in hit }

\* the rows the INSERT ... SELECT ... FROM dxy_bars proposes, dxy_bars being
\* computed from the tuples valid of pivot
proposed(pivot, valid, version, at) ==
  { excluded_row(ts, dxy_price(pivot[ts]), at, version) : ts \in valid }

\* upserted: all proposed rows written
RECURSIVE upsert_all(_, _)
upsert_all(bars, rows) ==
  IF rows = {} THEN bars
  ELSE LET row == CHOOSE r \in rows : TRUE
       IN  upsert_all(upsert_row(bars, row), rows \ {row})

\* count_results: RETURNING (xmax = 0) AS is_insert
num_inserted(bars, rows) == Cardinality({ r \in rows : conflicting(bars, r) = {} })
num_updated(bars, rows) == Cardinality({ r \in rows : conflicting(bars, r) # {} })

\* a count of all base timestamps: the variant RangeCounts must tell apart
\* from num_skipped
num_skipped_all(base, valid) == Cardinality(base)

\* skip_count: base_timestamps EXCEPT valid_tuples
num_skipped(base, valid) == Cardinality(base \ valid)

\* a validation that lets the empty range p_from_utc = p_to_utc pass: the
\* variant FailureLeavesStore must tell apart from range_rejected
range_rejected_strictly_after(p_from, p_to) == p_from > p_to

\* IF p_from_utc >= p_to_utc THEN RETURN success = false
range_rejected(p_from, p_to) == p_from >= p_to

\* BEGIN ... EXCEPTION WHEN OTHERS: the block's writes are rolled back when an
\* error is raised inside it
exception_block(before, after, raised) == IF raised THEN before ELSE after

\* calc_dxy_range_1m: the table it leaves and the JSONB it returns
calc_dxy_range_1m(bars, p_from, p_to, version, at, raised) ==
  IF range_rejected(p_from, p_to)
  THEN [ table |-> bars,
         result |-> [ success |-> FALSE,
                      error |-> "p_from_utc must be before p_to_utc" ] ]
  ELSE LET comps == component_rows(bars, p_from, p_to)
           pivot == fx_pivoted(comps)
           valid == valid_tuples(pivot)
           rows == proposed(pivot, valid, version, at)
           written == upsert_all(bars, rows)
       IN  [ table |-> exception_block(bars, written, raised),
             result |->
               IF raised
               THEN [ success |-> FALSE, error |-> "SQLERRM" ]
               ELSE [ success  |-> TRUE,
                      inserted |-> num_inserted(bars, rows),
                      updated  |-> num_updated(bars, rows),
                      skipped  |-> num_skipped(base_timestamps(comps), valid),
                      version  |-> version ] ]

----------------------------------------------------------------------------
(***************************************************************************)
(* verify_data.py: the checks, computed on the rows of the table they      *)
(* query.  A table is a set of rows; the verifier assumes no unique        *)
(* constraint, so two rows may differ in their rowid only.  ts_utc and the *)
(* clock are minutes.  A DataFrame is the sequence of the result rows.     *)
(***************************************************************************)
MinutesPerDay == 1440
MinutesPerHour == 60
\* --active-days
active_days == 7

\* a row of data_bars / derived_data_bars as the checks read it; rowid tells
\* apart the rows of one key
HeapRow(id, sym, tf, ts, o, h, l, c, nulls) ==
  [ rowid |-> id, canonical_symbol |-> sym, timeframe |-> tf, ts_utc |-> ts,
    open |-> o, high |-> h, low |-> l, close |-> c, nulls |-> nulls ]

\* the table with one more row of the key: a bar of open 1, high 3, low 1,
\* close 2
AddBar(table, sym, tf, ts) ==
  table \cup { HeapRow(Cardinality(RowsAt(table, << sym, tf, ts >>)) + 1,
                       sym, tf, ts, 1, 3, 1, 2, {}) }

\* the tables of at most n such bars with keys of the set keys
RECURSIVE Heaps(_, _)
Heaps(keys, n) ==
  IF n = 0 THEN { {} }
  ELSE LET smaller == Heaps(keys, n - 1)
       IN  smaller \cup { AddBar(T, k[1], k[2], k[3]) : T \in smaller, k \in keys }


\* a column of a row: NULL where the row stores no value
Col(r, name) ==
  IF "nulls" \in DOMAIN r /\ name \in r.nulls THEN NULL ELSE Some(r[name])

\* ts_utc >= (now() at time zone 'utc') - interval '{days} days'
InWindow(r, now_utc, days) == r.ts_utc >= now_utc - days * MinutesPerDay

\* the text order of the symbols and of the timeframes
SymbolOrder == << "DXY", "EURUSD", "GBPUSD", "USDCAD", "USDCHF", "USDJPY", "USDSEK" >>
TimeframeOrder == << "15m", "1d", "1h", "1m", "5m" >>
Rank(order, x) == CHOOSE i \in DOMAIN order : order[i] = x
SymLess(a, b) == Rank(SymbolOrder, a) < Rank(SymbolOrder, b)

\* ORDER BY: the elements of S in the strict total order before
SortBy(S, before(_, _)) ==
  LET ranked == { << Cardinality({ y \in S : before(y, x) }) + 1, x >> : x \in S }
  IN  [ i \in 1 .. Cardinality(S) |-> (CHOOSE p \in ranked : p[1] = i)[2] ]

\* the rows of a query that groups by symbol and counts: one row for each
\* symbol of counts, "order by <count> desc, canonical_symbol"
CountFrame(counts) ==
  LET df == SortBy(DOMAIN counts,
                   LAMBDA a, b : \/ counts[a] > counts[b]
                                 \/ (counts[a] = counts[b] /\ SymLess(a, b)))
  IN  [ i \in DOMAIN df |-> Row(df[i], counts[df[i]]) ]

\* the symbols a DataFrame reports
Reported(df) == { df[i].canonical_symbol : i \in DOMAIN df }

\* LIMIT n: the first n rows
Limit(df, n) == IF Len(df) <= n THEN df ELSE SubSeq(df, 1, n)

\* "limit 500" of check_duplicates
dup_limit == 500

\* a HAVING that keeps every key: the variant DuplicatesReported must tell
\* apart from having_duplicates
having_any(rows_at_key) == rows_at_key > 0

\* having count(*) > 1
having_duplicates(rows_at_key) == rows_at_key > 1

\* check_duplicates: the keys of the timeframes tfs that several rows of the
\* window share, "order by rows_at_key desc, canonical_symbol, timeframe,
\* ts_utc limit 500"
check_duplicates(table, tfs, days, now_utc) ==
  LET src == { r \in table : r.timeframe \in tfs /\ InWindow(r, now_utc, days) }
      grouped == { [ canonical_symbol |-> k[1], timeframe |-> k[2], ts_utc |-> k[3],
                     rows_at_key |-> Cardinality(RowsAt(src, k)) ] :
                   k \in { Key(r) : r \in src } }
      kept == { g \in grouped : having_duplicates(g.rows_at_key) }
  IN  Limit(SortBy(kept,
              LAMBDA a, b :
                \/ a.rows_at_key > b.rows_at_key
                \/ /\ a.rows_at_key = b.rows_at_key
                   /\ \/ SymLess(a.canonical_symbol, b.canonical_symbol)
                      \/ /\ a.canonical_symbol = b.canonical_symbol
                         /\ \/ Rank(TimeframeOrder, a.timeframe)
                                 < Rank(TimeframeOrder, b.timeframe)
                            \/ /\ a.timeframe = b.timeframe
                               /\ a.ts_utc < b.ts_utc),
            dup_limit)

\* date_trunc('hour', ts_utc) + make_interval(mins => (minute / 5) * 5)
bar_5m_ts(ts) ==
  (ts - (ts % MinutesPerHour)) + ((ts % MinutesPerHour) \div 5) * 5

\* date_trunc('hour', ts_utc)
bar_1h_ts(ts) == ts - (ts % MinutesPerHour)

\* CTEs src and roll of the coverage checks: the 1m rows of the window
\* grouped by symbol and bucket, with their number
roll(table, bucket(_), days, now_utc) ==
  LET src == { r \in table : r.timeframe = "1m" /\ InWindow(r, now_utc, days) }
  IN  { [ canonical_symbol |-> g[1], bar_ts |-> g[2],
          n_1m |-> Cardinality({ r \in src : /\ r.canonical_symbol = g[1]
                                             /\ bucket(r.ts_utc) = g[2] }) ] :
        g \in { << r.canonical_symbol, bucket(r.ts_utc) >> : r \in src } }

\* the final select of the coverage checks over the buckets with
\* n_1m < min_required: per symbol bad, partial (0 < n_1m < full) and missing
\* buckets, "order by bad desc, canonical_symbol"
coverage_frame(rolled, min_required, full) ==
  LET kept == { g \in rolled : g.n_1m < min_required }
      of(sym) == { g \in kept : g.canonical_symbol = sym }
      df == CountFrame([ sym \in { g.canonical_symbol : g \in kept } |->
                           Cardinality({ g \in of(sym) : g.n_1m < min_required }) ])
  IN  [ i \in DOMAIN df |->
          [ canonical_symbol |-> df[i].canonical_symbol,
            value |-> df[i].value,
            partial_bars |-> Cardinality({ g \in of(df[i].canonical_symbol) :
                                             g.n_1m > 0 /\ g.n_1m < full }),
            missing_bars |-> Cardinality({ g \in of(df[i].canonical_symbol) :
                                             g.n_1m = 0 }) ] ]

\* check_agg_consistency_1m_to_5m_coverage; the query does not use strict
check_agg_consistency_1m_to_5m_coverage(table, days, min_required_1m, strict, now_utc) ==
  coverage_frame(roll(table, bar_5m_ts, days, now_utc), min_required_1m, 5)

\* check_agg_consistency_1m_to_1h_coverage; the query does not use strict
check_agg_consistency_1m_to_1h_coverage(table, days, min_required_1m, strict, now_utc) ==
  coverage_frame(roll(table, bar_1h_ts, days, now_utc), min_required_1m, 60)

\* the rows of the timeframe with ts_utc >= since, each with
\* lag(ts_utc) over (partition by symbol order by ts_utc); rows of one
\* timestamp follow each other in an order the query does not fix, here that
\* of their rowid
lagged(table, tf, since) ==
  LET src == { r \in table : r.timeframe = tf /\ r.ts_utc >= since }
      part(sym) ==
        SortBy({ r \in src : r.canonical_symbol = sym },
               LAMBDA a, b : \/ a.ts_utc < b.ts_utc
                             \/ (a.ts_utc = b.ts_utc /\ a.rowid < b.rowid))
  IN  UNION { LET p == part(sym)
              IN  { [ rowid |-> p[i].rowid, canonical_symbol |-> sym,
                      ts_utc |-> p[i].ts_utc,
                      prev_ts |-> IF i = 1 THEN NULL ELSE Some(p[i - 1].ts_utc) ] :
                    i \in DOMAIN p } :
              sym \in { r.canonical_symbol : r \in src } }

\* check_timestamp_monotonicity, CTE ordered
ordered(table, tf, days, now_utc) ==
  lagged(table, tf, now_utc - days * MinutesPerDay)

\* the comparison < in place of <=
check_timestamp_monotonicity_strict(table, tf, days, now_utc) ==
  LET hits == { o \in ordered(table, tf, days, now_utc) :
                  ~ IsNull(o.prev_ts) /\ o.ts_utc < Val(o.prev_ts) }
  IN  CountFrame([ sym \in { o.canonical_symbol : o \in hits } |->
                     Cardinality({ o \in hits : o.canonical_symbol = sym }) ])

\* check_timestamp_monotonicity: per symbol, the rows with ts_utc <= prev_ts
check_timestamp_monotonicity(table, tf, days, now_utc) ==
  LET hits == { o \in ordered(table, tf, days, now_utc) :
                  ~ IsNull(o.prev_ts) /\ o.ts_utc <= Val(o.prev_ts) }
  IN  CountFrame([ sym \in { o.canonical_symbol : o \in hits } |->
                     Cardinality({ o \in hits : o.canonical_symbol = sym }) ])

\* check_gap_density without symbol filter: per symbol with two rows or more
\* in the last years, the number of gaps above one minute and the largest
\* gap, "order by gap_events desc, max_gap desc"
check_gap_density(table, tf, years, now_utc) ==
  LET gaps == { [ rowid |-> o.rowid, canonical_symbol |-> o.canonical_symbol,
                  ts_utc |-> o.ts_utc, gap |-> o.ts_utc - Val(o.prev_ts) ] :
                o \in { x \in lagged(table, tf, now_utc - years * YearDays * MinutesPerDay) :
                          ~ IsNull(x.prev_ts) } }
      grouped == { [ canonical_symbol |-> sym,
                     value |-> Cardinality({ g \in gaps : /\ g.canonical_symbol = sym
                                                          /\ g.gap > 1 }),
                     max_gap |-> Val(SqlMax({ g.gap : g \in { x \in gaps :
                                                x.canonical_symbol = sym } })) ] :
                   sym \in { g.canonical_symbol : g \in gaps } }
  IN  SortBy(grouped,
        LAMBDA a, b : \/ a.value > b.value
                      \/ /\ a.value = b.value
                         /\ \/ a.max_gap > b.max_gap
                            \/ /\ a.max_gap = b.max_gap
                               /\ SymLess(a.canonical_symbol, b.canonical_symbol))

\* the query of check_staleness_with_thresholds: for each symbol of the list
\* the minutes since its latest 1m bar of the window, NULL without such a
\* bar, "order by staleness_minutes desc nulls last"
staleness_query(table, symbols, days, now_utc) ==
  LET latest(sym) == SqlMax({ r.ts_utc : r \in { x \in table :
                                /\ x.canonical_symbol = sym /\ x.timeframe = "1m"
                                /\ InWindow(x, now_utc, days) } })
      rows == { StaleRow(sym, IF IsNull(latest(sym)) THEN NULL
                              ELSE Some(now_utc - Val(latest(sym)))) :
                sym \in symbols }
  IN  SortBy(rows,
        LAMBDA a, b :
          \/ ~ IsNull(a.staleness_minutes) /\ IsNull(b.staleness_minutes)
          \/ /\ ~ IsNull(a.staleness_minutes) /\ ~ IsNull(b.staleness_minutes)
             /\ Val(a.staleness_minutes) > Val(b.staleness_minutes)
          \/ /\ a.staleness_minutes = b.staleness_minutes
             /\ SymLess(a.canonical_symbol, b.canonical_symbol))

\* the non-null values of a set of column values
NonNull(S) == { Val(x) : x \in { y \in S : ~ IsNull(y) } }

SqlMin(S) == IF S = {} THEN NULL ELSE Some(CHOOSE m \in S : \A x \in S : m <= x)

Abs(x) == IF x < 0 THEN 0 - x ELSE x

\* prices are counted in units of abs_tol = 1e-6; rel_tol = 1e-4 is one part
\* in rel_tol_parts
abs_tol == 1
rel_tol_parts == 10000

\* abs(derived - actual) > (abs(actual) * rel_tol + abs_tol), which is not
\* true when one side is NULL
exceeds_tolerance(derived, actual) ==
  /\ ~ IsNull(derived)
  /\ ~ IsNull(actual)
  /\ rel_tol_parts * Abs(Val(derived) - Val(actual))
       > Abs(Val(actual)) + rel_tol_parts * abs_tol

\* a HAVING that keeps every bucket: the variant FullBucketsCompared must
\* tell apart from full_bucket
any_bucket(bar_count) == bar_count > 0

\* having count(*) = 5
full_bucket(bar_count) == bar_count = 5

\* (array_agg(col order by ts_utc))[1] and, with backwards, (array_agg(col
\* order by ts_utc desc))[1]; the query does not fix the order of the rows of
\* one ts_utc, tie is the order of their rowid that the aggregate happens to
\* use
first_agg(rows, col, backwards, tie) ==
  LET before(a, b) ==
        \/ IF backwards THEN a.ts_utc > b.ts_utc ELSE a.ts_utc < b.ts_utc
        \/ /\ a.ts_utc = b.ts_utc
           /\ IF tie = "asc" THEN a.rowid < b.rowid ELSE a.rowid > b.rowid
  IN  Col(CHOOSE r \in rows : \A x \in rows \ { r } : before(r, x), col)

\* check_cross_timeframe_consistency, CTE bars_1m
bars_1m(table, days, now_utc, tie) ==
  LET src == { r \in table : r.timeframe = "1m" /\ InWindow(r, now_utc, days) }
      rows(g) == { r \in src : /\ r.canonical_symbol = g[1]
                               /\ bar_5m_ts(r.ts_utc) = g[2] }
  IN  { [ canonical_symbol |-> g[1], bar_5m_ts |-> g[2],
          derived_open  |-> first_agg(rows(g), "open", FALSE, tie),
          derived_high  |-> SqlMax(NonNull({ Col(r, "high") : r \in rows(g) })),
          derived_low   |-> SqlMin(NonNull({ Col(r, "low") : r \in rows(g) })),
          derived_close |-> first_agg(rows(g), "close", TRUE, tie),
          bar_count     |-> Cardinality(rows(g)) ] :
        g \in { k \in { << r.canonical_symbol, bar_5m_ts(r.ts_utc) >> : r \in src } :
                  full_bucket(Cardinality(rows(k))) } }

\* check_cross_timeframe_consistency: per symbol the number of pairs of a
\* recomputed bucket and a stored 5m bar of its timestamp of which a price is
\* out of tolerance, "order by mismatched_bars desc, canonical_symbol"
check_cross_timeframe_consistency(data, derived, days, now_utc, tie) ==
  LET bars_5m == { r \in derived : r.timeframe = "5m" /\ InWindow(r, now_utc, days) }
      mismatched ==
        { p \in bars_1m(data, days, now_utc, tie) \X bars_5m :
            /\ p[1].canonical_symbol = p[2].canonical_symbol
            /\ p[1].bar_5m_ts = p[2].ts_utc
            /\ \/ exceeds_tolerance(p[1].derived_high, Col(p[2], "high"))
               \/ exceeds_tolerance(p[1].derived_low, Col(p[2], "low"))
               \/ exceeds_tolerance(p[1].derived_open, Col(p[2], "open"))
               \/ exceeds_tolerance(p[1].derived_close, Col(p[2], "close")) }
  IN  CountFrame([ sym \in { p[1].canonical_symbol : p \in mismatched } |->
                     Cardinality({ p \in mismatched : p[1].canonical_symbol = sym }) ])

\* extract(hour from ts) and extract(minute from ts)
hour_of(ts) == (ts \div MinutesPerHour) % 24
minute_of(ts) == ts % MinutesPerHour

\* a predicate that takes every bar of an hour for aligned: the variant
\* MisalignedCounted must tell apart from misalign_pred
misalign_pred_hourly(tf, ts) == minute_of(ts) # 0

\* check_alignment, misalign_pred of the timeframes 5m, 1h and 1d
misalign_pred(tf, ts) ==
  IF tf = "5m" THEN minute_of(ts) % 5 # 0
  ELSE IF tf = "1h" THEN minute_of(ts) # 0
  ELSE hour_of(ts) # 0 \/ minute_of(ts) # 0

\* check_alignment: ValueError for another timeframe, and otherwise per
\* symbol the number of rows of the timeframe in the window that
\* misalign_pred takes, "order by misaligned_count desc, canonical_symbol"
check_alignment(table, tf, days, now_utc) ==
  IF tf \notin { "5m", "1h", "1d" } THEN Raised
  ELSE LET taken == { r \in table : /\ r.timeframe = tf
                                    /\ InWindow(r, now_utc, days)
                                    /\ misalign_pred(tf, r.ts_utc) }
       IN  Returned(CountFrame([ sym \in { r.canonical_symbol : r \in taken } |->
                                   Cardinality({ r \in taken : r.canonical_symbol = sym }) ]))

\* a < b, a = b and a <= 0 of SQL: not true when a side is NULL
SqlLess(a, b) == ~ IsNull(a) /\ ~ IsNull(b) /\ Val(a) < Val(b)
SqlEqual(a, b) == ~ IsNull(a) /\ ~ IsNull(b) /\ Val(a) = Val(b)
NonPositive(a) == ~ IsNull(a) /\ Val(a) <= 0

\* (high - low) / nullif(close, 0) > 0.10, the threshold being one part in
\* spread_parts; the quotient is NULL for a close of 0
spread_parts == 10
excessive_spread(r) ==
  LET h == Col(r, "high")  l == Col(r, "low")  c == Col(r, "close")
  IN  /\ ~ IsNull(h) /\ ~ IsNull(l) /\ ~ IsNull(c)
      /\ Val(c) # 0
      /\ IF Val(c) > 0 THEN spread_parts * (Val(h) - Val(l)) > Val(c)
                       ELSE spread_parts * (Val(h) - Val(l)) < Val(c)

\* the number of bars of excessive spread a symbol may have unreported
spread_noise_floor == 10

high_less_than_low(r) == SqlLess(Col(r, "high"), Col(r, "low"))
open_out_of_range(r) ==
  SqlLess(Col(r, "open"), Col(r, "low")) \/ SqlLess(Col(r, "high"), Col(r, "open"))
close_out_of_range(r) ==
  SqlLess(Col(r, "close"), Col(r, "low")) \/ SqlLess(Col(r, "high"), Col(r, "close"))
zero_range(r) == SqlEqual(Col(r, "high"), Col(r, "low"))

\* check_enhanced_ohlc_integrity: per symbol of the rows of the timeframe
\* with ts_utc >= since the five counts, for the symbols the HAVING keeps,
\* "order by high_less_than_low desc, open_out_of_range desc, canonical_symbol"
check_enhanced_ohlc_integrity(table, tf, since) ==
  LET src == { r \in table : r.timeframe = tf /\ r.ts_utc >= since }
      of(sym) == { r \in src : r.canonical_symbol = sym }
      grouped ==
        { [ canonical_symbol      |-> sym,
            value                 |-> Cardinality({ r \in of(sym) : high_less_than_low(r) }),
            open_out_of_range     |-> Cardinality({ r \in of(sym) : open_out_of_range(r) }),
            close_out_of_range    |-> Cardinality({ r \in of(sym) : close_out_of_range(r) }),
            zero_range_bars       |-> Cardinality({ r \in of(sym) : zero_range(r) }),
            excessive_spread_bars |-> Cardinality({ r \in of(sym) : excessive_spread(r) }) ] :
          sym \in { r.canonical_symbol : r \in src } }
      kept == { g \in grouped : \/ g.value > 0
                                \/ g.open_out_of_range > 0
                                \/ g.close_out_of_range > 0
                                \/ g.excessive_spread_bars > spread_noise_floor }
  IN  SortBy(kept,
        LAMBDA a, b : \/ a.value > b.value
                      \/ /\ a.value = b.value
                         /\ \/ a.open_out_of_range > b.open_out_of_range
                            \/ /\ a.open_out_of_range = b.open_out_of_range
                               /\ SymLess(a.canonical_symbol, b.canonical_symbol))

\* open is null or high is null or low is null or close is null
null_ohlc(r) == \E col \in { "open", "high", "low", "close" } : IsNull(Col(r, col))

\* open <= 0 or high <= 0 or low <= 0 or close <= 0
nonpositive_ohlc(r) ==
  \E col \in { "open", "high", "low", "close" } : NonPositive(Col(r, col))

\* greatest and least, which ignore NULL arguments
greatest(a, b) == SqlMax(NonNull({ a, b }))
least(a, b) == SqlMin(NonNull({ a, b }))

\* a predicate that does not look below the low: the variant
\* CleanSymbolsAbsent must tell apart from ohlc_inconsistent
ohlc_inconsistent_above(r) ==
  \/ SqlLess(Col(r, "high"), greatest(Col(r, "open"), Col(r, "close")))
  \/ SqlLess(Col(r, "high"), Col(r, "low"))

\* high < greatest(open, close) or low > least(open, close) or high < low
ohlc_inconsistent(r) ==
  \/ SqlLess(Col(r, "high"), greatest(Col(r, "open"), Col(r, "close")))
  \/ SqlLess(least(Col(r, "open"), Col(r, "close")), Col(r, "low"))
  \/ SqlLess(Col(r, "high"), Col(r, "low"))

\* check_integrity_ohlc without symbol filter: per symbol of the rows of the
\* timeframe in the last years the three counts, for the symbols of which
\* one is positive, "order by null_ohlc desc, nonpositive_ohlc desc,
\* ohlc_inconsistent desc, canonical_symbol"
check_integrity_ohlc(table, tf, years, now_utc) ==
  LET src == { r \in table : /\ r.timeframe = tf
                             /\ r.ts_utc >= now_utc - years * YearDays * MinutesPerDay }
      of(sym) == { r \in src : r.canonical_symbol = sym }
      grouped ==
        { [ canonical_symbol  |-> sym,
            value             |-> Cardinality({ r \in of(sym) : null_ohlc(r) }),
            nonpositive_ohlc  |-> Cardinality({ r \in of(sym) : nonpositive_ohlc(r) }),
            ohlc_inconsistent |-> Cardinality({ r \in of(sym) : ohlc_inconsistent(r) }) ] :
          sym \in { r.canonical_symbol : r \in src } }
      kept == { g \in grouped : g.value > 0 \/ g.nonpositive_ohlc > 0 \/ g.ohlc_inconsistent > 0 }
  IN  SortBy(kept,
        LAMBDA a, b :
          \/ a.value > b.value
          \/ /\ a.value = b.value
             /\ \/ a.nonpositive_ohlc > b.nonpositive_ohlc
                \/ /\ a.nonpositive_ohlc = b.nonpositive_ohlc
                   /\ \/ a.ohlc_inconsistent > b.ohlc_inconsistent
                      \/ /\ a.ohlc_inconsistent = b.ohlc_inconsistent
                         /\ SymLess(a.canonical_symbol, b.canonical_symbol))

\* check_dxy_component_dependency, CTE fx: for a timestamp the column of a
\* component, min(case when canonical_symbol = c then close end) over the
\* 1m rows of data_bars at the timestamp
fx(data, c, ts) ==
  SqlMin(NonNull({ Col(r, "close") :
                   r \in { b \in data : /\ b.timeframe = "1m" /\ b.ts_utc = ts
                                        /\ b.canonical_symbol = c } }))

\* check_dxy_component_dependency: one row with the number of the
\* timestamps of the DXY 1m rows of derived_data_bars in the last years at
\* which a component column is NULL or <= 0, and the number of these
\* timestamps
check_dxy_component_dependency(derived, data, years, now_utc) ==
  LET ts == { r.ts_utc : r \in { x \in derived :
                /\ x.canonical_symbol = dxy_symbol /\ x.timeframe = "1m"
                /\ x.ts_utc >= now_utc - years * YearDays * MinutesPerDay } }
      missing_or_invalid(t) ==
        \E c \in Components : IsNull(fx(data, c, t)) \/ NonPositive(fx(data, c, t))
  IN  << [ value |-> Cardinality({ t \in ts : missing_or_invalid(t) }),
           dxy_total_minutes_checked |-> Cardinality(ts) ] >>

----------------------------------------------------------------------------
(***************************************************************************)
(* dxy_migration_phase4_regenerate.py                                      *)
(***************************************************************************)
\* start_date of main, '2025-12-31 00:00:00+00', the minute 0 of the model
start_date == 0

\* check_fx_data_availability: None without a 1m component row from the
\* start date on, and otherwise the latest ts_utc of these rows and the
\* number of components that have one
check_fx_data_availability(bars) ==
  LET fx_data == { r \in bars : /\ r.canonical_symbol \in Components
                                /\ r.timeframe = "1m"
                                /\ r.ts_utc >= start_date }
  IN  IF fx_data = {} THEN NULL
      ELSE Some([ latest |-> Val(SqlMax({ r.ts_utc : r \in fx_data })),
                  pairs  |-> Cardinality({ r.canonical_symbol : r \in fx_data }) ])

\* the DXY 1m rows of data_bars
dxy_1m(bars) == { r \in bars : r.canonical_symbol = dxy_symbol /\ r.timeframe = "1m" }

\* clear_existing_dxy_data: DELETE FROM data_bars WHERE canonical_symbol =
\* 'DXY' AND timeframe = '1m', committed, when there are such rows
clear_existing_dxy_data(bars) == bars \ dxy_1m(bars)

\* verify_regenerated_data: total_count, the DXY 1m rows of source synthetic
total_count(bars) == Cardinality({ r \in dxy_1m(bars) : r.source = "synthetic" })

----------------------------------------------------------------------------
(***************************************************************************)
(* pause_resume_asset.py                                                   *)
(***************************************************************************)
\* a row of data_ingest_state
IngestRow(sym, tf, status, pause_fetch, notes, updated_at) ==
  [ canonical_symbol |-> sym, timeframe |-> tf, status |-> status,
    pause_fetch |-> pause_fetch, notes |-> notes, updated_at |-> updated_at ]

\* an UPDATE that sets status next to pause_fetch
pause_resume_asset_status(state, action, symbol, now_utc) ==
  LET pause_value == action = "pause"
      rows == { r \in state : r.canonical_symbol = symbol }
  IN  (state \ rows)
      \cup { [ r EXCEPT !.pause_fetch = pause_value,
                        !.status = IF pause_value THEN "paused" ELSE "running",
                        !.updated_at = now_utc ] :
             r \in rows }

\* main with one symbol: nothing without state rows of the symbol, and
\* otherwise UPDATE data_ingest_state SET pause_fetch, notes, updated_at
\* WHERE canonical_symbol = symbol; the note is a text followed by NOW()
pause_resume_asset(state, action, symbol, now_utc) ==
  LET pause_value == action = "pause"
      rows == { r \in state : r.canonical_symbol = symbol }
  IN  IF rows = {} THEN state
      ELSE (state \ rows)
           \cup { [ r EXCEPT !.pause_fetch = pause_value,
                             !.notes = Some(<< IF pause_value
                                               THEN "Data fetching PAUSED by user on "
                                               ELSE "Data fetching RESUMED by user on ",
                                               now_utc >>),
                             !.updated_at = now_utc ] :
                  r \in rows }

\* one iteration of "for symbol in symbols": the SELECT, the UPDATE or the
\* commit may raise, and then "except Exception" rolls the transaction
\* back; otherwise the UPDATE is committed
pause_resume_symbol(state, action, symbol, failure, now_utc) ==
  IF failure = "select" THEN state
  ELSE IF { r \in state : r.canonical_symbol = symbol } = {} THEN state
  ELSE IF failure \in { "update", "commit" } THEN state
  ELSE pause_resume_asset(state, action, symbol, now_utc)

\* main: the loop over sys.argv[2:]; failures[i] is what raises in the i-th
\* iteration
RECURSIVE pause_resume_main(_, _, _, _, _)
pause_resume_main(state, action, symbols, failures, now_utc) ==
  IF symbols = << >> THEN state
  ELSE pause_resume_main(
         pause_resume_symbol(state, action, Head(symbols), Head(failures), now_utc),
         action, Tail(symbols), Tail(failures), now_utc)

----------------------------------------------------------------------------
(***************************************************************************)
(* verify_data.py: main                                                    *)
(***************************************************************************)
VARIABLES
  phase,      \* --phase: "A", "B" or "ALL"
  env,        \* what the store answers and which queries/checks fail
  pc,         \* position of main
  results,    \* the results dictionary of main
  calls,      \* the checks each phase has invoked, in order
  exit_code,  \* exit status of the process, NULL while it runs
  message,    \* the closing line printed by main
  data_bars,  \* the rows of the table data_bars
  now,        \* NOW() of the store
  reply,      \* what the latest call of calc_dxy_range_1m returned
  derived_bars,       \* the rows of the table derived_data_bars
  data_ingest_state,  \* the rows of the table data_ingest_state
  finding,    \* the check applied last to the tables, and what it returned
  step,       \* position of main of dxy_migration_phase4_regenerate.py
  txn,        \* data_bars as the script's open transaction sees it, NULL without one
  end_date,   \* end_date of main, NULL before it is set
  breaker,    \* the fields of one CircuitBreaker
  time,       \* time.time(), in seconds
  tasks,      \* the calls of CircuitBreaker.call, each idle or awaiting func
  streak,     \* how many calls in a row had func raise expected_exception
  retry       \* one run of a retry helper of retries.py

run_vars == << phase, env, pc, results, calls, exit_code, message >>
dxy_vars == << data_bars, now, reply >>
chk_vars == << derived_bars, data_ingest_state, finding >>
regen_vars == << step, txn, end_date >>
svc_vars == << breaker, time, tasks, streak, retry >>
ext_vars == << step, txn, end_date, breaker, time, tasks, streak, retry >>
vars == << phase, env, pc, results, calls, exit_code, message,
           data_bars, now, reply, derived_bars, data_ingest_state, finding,
           step, txn, end_date, breaker, time, tasks, streak, retry >>

\* no circuit breaker and no retry helper is in use
NoSvc ==
  /\ breaker = << >> /\ time = 0 /\ tasks = << >> /\ streak = 0 /\ retry = << >>

\* the migration script is not running
NoExt ==
  /\ step = "idle" /\ txn = {} /\ end_date = {}
  /\ NoSvc

Absent == {}
Present(v) == {v}

\* a verdict that looks at the flags of Phase A only: the variant
\* VerdictIsAndOfFlags must tell apart from all_ok
all_ok_phase_a_only(res) ==
  \A r \in res["phase_a"] :
    \A flag \in DOMAIN r.problem_flags : ~ r.problem_flags[flag]

\* all_ok of main: no phase result holds a true problem flag
all_ok(res) ==
  \A key \in {"phase_a", "phase_b"} :
    \A r \in res[key] :
      \A flag \in DOMAIN r.problem_flags : ~ r.problem_flags[flag]

InitRun ==
  /\ phase \in {"A", "B", "ALL"}
  /\ \E X \in UpTo(Anomalies, MaxAnomalies) :
       /\ OnePerSlot(X)
       /\ phase = "A" => \A x \in X : x[2] = "A"
       /\ phase = "B" => \A x \in X : x[2] = "B"
       /\ env = [ store_a |-> StoreOf(X, "A", NamesA),
                  store_b |-> StoreOf(X, "B", NamesB),
                  mode_a  |-> ModeOf(X, "A", NamesA),
                  mode_b  |-> ModeOf(X, "B", NamesB) ]
  /\ pc = "connect"
  /\ results = [ phase_a |-> Absent, phase_b |-> Absent, expected_vs_actual |-> Absent ]
  /\ calls = [ A |-> << >>, B |-> << >> ]
  /\ exit_code = NULL
  /\ message = ""
  \* the run does not write the bar store
  /\ data_bars = {} /\ now = 0 /\ reply = [ success |-> FALSE, error |-> "" ]
  /\ derived_bars = {} /\ data_ingest_state = {} /\ finding = << >>
  /\ NoExt

\* an exception reached the handler of main: sys.exit(1)
Fail ==
  /\ pc' = "exit"
  /\ exit_code' = Some(1)
  /\ message' = "ERROR during verification"

\* get_conn: a failed connection ends the run with status 1
Connect ==
  /\ pc = "connect"
  /\ \E connected \in BOOLEAN :
       IF connected
       THEN /\ pc' = "phase_a"
            /\ UNCHANGED << exit_code, message >>
       ELSE /\ pc' = "exit"
            /\ exit_code' = Some(1)
            /\ message' = "ERROR: Failed to connect to database"
  /\ UNCHANGED << phase, env, results, calls >>
  /\ UNCHANGED dxy_vars
  /\ UNCHANGED chk_vars
  /\ UNCHANGED ext_vars

\* if args.phase in ("A", "ALL"): results["phase_a"] = run_phase_a(...)
PhaseA ==
  /\ pc = "phase_a"
  /\ IF phase \in {"A", "ALL"}
     THEN LET out == run_phase_a(env.store_a, env.mode_a)
          IN  /\ calls' = [calls EXCEPT !.A = out.calls]
              /\ IF out.aborted
                 THEN Fail /\ UNCHANGED results
                 ELSE /\ results' = [results EXCEPT !.phase_a = Present(out.result)]
                      /\ pc' = "phase_b"
                      /\ UNCHANGED << exit_code, message >>
     ELSE /\ pc' = "phase_b"
          /\ UNCHANGED << results, calls, exit_code, message >>
  /\ UNCHANGED << phase, env >>
  /\ UNCHANGED dxy_vars
  /\ UNCHANGED chk_vars
  /\ UNCHANGED ext_vars

\* if args.phase in ("B", "ALL"): results["phase_b"] = run_phase_b(...)
PhaseB ==
  /\ pc = "phase_b"
  /\ IF phase \in {"B", "ALL"}
     THEN LET out == run_phase_b(env.store_b, env.mode_b)
          IN  /\ calls' = [calls EXCEPT !.B = out.calls]
              /\ IF out.aborted
                 THEN Fail /\ UNCHANGED results
                 ELSE /\ results' = [results EXCEPT !.phase_b = Present(out.result)]
                      /\ pc' = "expected_vs_actual"
                      /\ UNCHANGED << exit_code, message >>
     ELSE /\ pc' = "expected_vs_actual"
          /\ UNCHANGED << results, calls, exit_code, message >>
  /\ UNCHANGED << phase, env >>
  /\ UNCHANGED dxy_vars
  /\ UNCHANGED chk_vars
  /\ UNCHANGED ext_vars

\* run_expected_actual_tables and the combined report: no problem flags; a
\* failure to write the report reaches the handler of main
Report ==
  /\ pc = "expected_vs_actual"
  /\ \E written \in BOOLEAN :
       IF written
       THEN /\ results' = [results EXCEPT !.expected_vs_actual = Present("tables")]
            /\ pc' = "verdict"
            /\ UNCHANGED << exit_code, message >>
       ELSE Fail /\ UNCHANGED results
  /\ UNCHANGED << phase, env, calls >>
  /\ UNCHANGED dxy_vars
  /\ UNCHANGED chk_vars
  /\ UNCHANGED ext_vars

\* "Check for problems": exit status 1 when some flag is true
Verdict ==
  /\ pc = "verdict"
  /\ pc' = "exit"
  /\ IF all_ok(results)
     THEN /\ message' = "All checks passed!"
          /\ exit_code' = Some(0)
     ELSE /\ message' = "Some issues found"
          /\ exit_code' = Some(1)
  /\ UNCHANGED << phase, env, results, calls >>
  /\ UNCHANGED dxy_vars
  /\ UNCHANGED chk_vars
  /\ UNCHANGED ext_vars

NextRun == Connect \/ PhaseA \/ PhaseB \/ Report \/ Verdict


----------------------------------------------------------------------------
(***************************************************************************)
(* The bar store under its writers: insert_bars_batch, calc_dxy_range_1m   *)
(***************************************************************************)
\* the component bars the store starts with, at price 1: all six for the
\* minutes before the latest one, which still lacks USDCHF; the backfill may
\* deliver that bar later
start_bars(ts) == IF ts < MaxTs THEN Components ELSE Components \ {"USDCHF"}

NoReply == [ success |-> FALSE, error |-> "" ]

InitBars ==
  /\ data_bars = UNION { insert_bars_batch({}, p[1], p[2], 1, 0) :
                          p \in { q \in Components \X Ts : q[1] \in start_bars(q[2]) } }
  /\ now = 0
  /\ reply = NoReply
  \* no verification run
  /\ phase = "A" /\ env = << >> /\ pc = "idle" /\ results = << >>
  /\ calls = << >> /\ exit_code = NULL /\ message = ""
  \* calc_dxy_range_1m writes data_bars only
  /\ derived_bars = {} /\ data_ingest_state = {} /\ finding = << >>
  /\ NoExt

\* the clock of the store advances
Tick ==
  /\ now < MaxClock
  /\ now' = now + 1
  /\ UNCHANGED << data_bars, reply >>
  /\ UNCHANGED run_vars
  /\ UNCHANGED chk_vars
  /\ UNCHANGED ext_vars

\* the backfill writes one provider bar of a component
InsertBar ==
  /\ \E c \in Components, ts \in Ts, px \in Closes :
       data_bars' = insert_bars_batch(data_bars, c, ts, px, now)
  /\ UNCHANGED << now, reply >>
  /\ UNCHANGED run_vars
  /\ UNCHANGED chk_vars
  /\ UNCHANGED ext_vars

\* SELECT calc_dxy_range_1m(p_from_utc, p_to_utc, p_derivation_version)
CalcDxy ==
  /\ \E p_from \in Froms, p_to \in Tos, v \in Versions,
        raised \in BOOLEAN :
       LET out == calc_dxy_range_1m(data_bars, p_from, p_to, v, now, raised)
       IN  /\ data_bars' = out.table
           /\ reply' = out.result
  /\ UNCHANGED now
  /\ UNCHANGED run_vars
  /\ UNCHANGED chk_vars
  /\ UNCHANGED ext_vars

NextBars == Tick \/ InsertBar \/ CalcDxy

----------------------------------------------------------------------------
(***************************************************************************)
(* The checks of verify_data.py applied to tables of 1m bars               *)
(***************************************************************************)
\* the clock of a verification: day 30, 00:00
VerifyNow == 30 * MinutesPerDay

\* get_active_assets: the active symbols of the registry, and DXY
active == { "EURUSD", "USDJPY", dxy_symbol }

\* timestamps of the 1m bars: the minute before the window of Phase A, and
\* minutes around the staleness thresholds
SeriesTs == { VerifyNow - active_days * MinutesPerDay - 1,
              VerifyNow - (staleness_critical_minutes + 1),
              VerifyNow - (staleness_warning_minutes + 1),
              VerifyNow - staleness_warning_minutes,
              VerifyNow - 1 }
SeriesSymbols == { "EURUSD", dxy_symbol }
SeriesKeys == { << sym, "1m", ts >> : sym \in SeriesSymbols, ts \in SeriesTs }

NoRun ==
  /\ phase = "A" /\ env = << >> /\ pc = "idle" /\ results = << >>
  /\ calls = << >> /\ exit_code = NULL /\ message = ""

NoFinding == [ check |-> "none", df |-> EmptyDF ]

\* the ingest state of EURUSD: running or orphaned, not paused
IngestStates ==
  { { IngestRow("EURUSD", "1m", status, FALSE, NULL, 0) } : status \in { "running", "orphaned" } }

InitSeries ==
  /\ data_bars \in Heaps(SeriesKeys, MaxHeap)
  /\ derived_bars = {}
  /\ data_ingest_state \in IngestStates
  /\ now = VerifyNow
  /\ finding = NoFinding
  /\ NoExt
  /\ reply = NoReply
  /\ NoRun

\* python pause_resume_asset.py [pause|resume] SYMBOL
PauseResume ==
  /\ \E action \in { "pause", "resume" }, symbol \in SeriesSymbols :
       data_ingest_state' = pause_resume_asset(data_ingest_state, action, symbol, now)
  /\ finding' = NoFinding
  /\ UNCHANGED << data_bars, derived_bars, now, reply >>
  /\ UNCHANGED run_vars
  /\ UNCHANGED ext_vars

\* monotonic_1m = check_timestamp_monotonicity(data_bars, "1m", active_days)
CheckMonotonicity ==
  /\ finding' = [ check |-> "timestamp_monotonicity",
                  df |-> check_timestamp_monotonicity(data_bars, "1m", active_days, now) ]
  /\ UNCHANGED << data_bars, derived_bars, data_ingest_state, now, reply >>
  /\ UNCHANGED run_vars
  /\ UNCHANGED ext_vars

\* freshness, staleness_counts = check_staleness_with_thresholds(active, active_days)
CheckStaleness ==
  /\ LET out == check_staleness_with_thresholds("ok",
                  staleness_query(data_bars, active, active_days, now)).value
     IN  finding' = [ check |-> "freshness", df |-> out.df, counts |-> out.counts ]
  /\ UNCHANGED << data_bars, derived_bars, data_ingest_state, now, reply >>
  /\ UNCHANGED run_vars
  /\ UNCHANGED ext_vars

\* gap_density_1m = check_gap_density(data_bars, "1m", hist_years)
CheckGapDensity ==
  /\ finding' = [ check |-> "gap_density_1m",
                  df |-> check_gap_density(data_bars, "1m", hist_years, now) ]
  /\ UNCHANGED << data_bars, derived_bars, data_ingest_state, now, reply >>
  /\ UNCHANGED run_vars
  /\ UNCHANGED ext_vars

NextSeries == PauseResume \/ CheckMonotonicity \/ CheckStaleness \/ CheckGapDensity

----------------------------------------------------------------------------
(***************************************************************************)
(* check_duplicates applied to data_bars and to derived_data_bars          *)
(***************************************************************************)
\* the timeframes run_phase_a checks in each table
dup_tfs_data == { "1m" }
dup_tfs_derived == { "1m", "5m", "1h", "1d" }

\* keys of the bars: a checked and an unchecked timeframe, a minute before
\* the window and one inside
DupKeys == { << sym, tf, ts >> : sym \in { "EURUSD", dxy_symbol },
                                 tf \in { "1m", "15m" },
                                 ts \in { VerifyNow - active_days * MinutesPerDay - 1,
                                          VerifyNow - 15 } }

\* a span of dup_limit + 1 minutes of one symbol loaded twice
LoadedTwice ==
  { HeapRow(id, "EURUSD", "1m", VerifyNow - i, 1, 3, 1, 2, {}) :
      i \in 1 .. dup_limit + 1, id \in 1 .. 2 }

InitDup ==
  /\ \E T \in Heaps(DupKeys, MaxHeap) \cup { LoadedTwice } :
       \/ data_bars = T /\ derived_bars = {}
       \/ data_bars = {} /\ derived_bars = T
  /\ data_ingest_state = {}
  /\ now = VerifyNow
  /\ finding = NoFinding
  /\ NoExt
  /\ reply = NoReply
  /\ NoRun

\* dup_data = check_duplicates(data_bars, ["1m"], active_days)
CheckDuplicatesData ==
  /\ finding' = [ check |-> "duplicates_data_bars",
                  df |-> check_duplicates(data_bars, dup_tfs_data, active_days, now) ]
  /\ UNCHANGED << data_bars, derived_bars, data_ingest_state, now, reply >>
  /\ UNCHANGED run_vars
  /\ UNCHANGED ext_vars

\* dup_derived = check_duplicates(derived_data_bars, ["1m","5m","1h","1d"], active_days)
CheckDuplicatesDerived ==
  /\ finding' = [ check |-> "duplicates_derived_bars",
                  df |-> check_duplicates(derived_bars, dup_tfs_derived, active_days, now) ]
  /\ UNCHANGED << data_bars, derived_bars, data_ingest_state, now, reply >>
  /\ UNCHANGED run_vars
  /\ UNCHANGED ext_vars

NextDup == CheckDuplicatesData \/ CheckDuplicatesDerived

----------------------------------------------------------------------------
(***************************************************************************)
(* The aggregation coverage checks applied to hours of 1m bars             *)
(***************************************************************************)
\* the clock of a verification: day 30, 00:00 or 00:02
BucketNows == { VerifyNow, VerifyNow + 2 }

\* the hours of the bars: the one the window of Phase A starts in, and the
\* one that ended one hour before day 30, 00:00
BucketHours(now_utc) ==
  { bar_1h_ts(now_utc - active_days * MinutesPerDay), VerifyNow - 2 * MinutesPerHour }

\* the minutes an hour can lack: those of its first 5m bucket
GoneMinutes == 0 .. 4

\* the 60 bars of the hour but those of the minutes gone, and a second row
\* for each minute of twice
HourOfBars(sym, hour, gone, twice) ==
  { HeapRow(1, sym, "1m", hour + m, 1, 3, 1, 2, {}) :
      m \in (0 .. MinutesPerHour - 1) \ gone }
  \cup { HeapRow(2, sym, "1m", hour + m, 1, 3, 1, 2, {}) : m \in twice \ gone }

InitBuckets ==
  /\ now \in BucketNows
  /\ \E hour \in BucketHours(now), twice \in { {}, {5} } :
       \E gone \in { G \in SUBSET GoneMinutes : Cardinality(G) <= MaxGone } :
         data_bars = HourOfBars("EURUSD", hour, gone, twice)
  /\ derived_bars = {}
  /\ data_ingest_state = {}
  /\ finding = NoFinding
  /\ NoExt
  /\ reply = NoReply
  /\ NoRun

\* check_agg_consistency_1m_to_5m_coverage with its defaults (strict), and
\* as run_phase_a calls it: min_required_1m = 3, strict = False
CheckAggCoverage5m ==
  /\ \E args \in { [ min_required_1m |-> 5, strict |-> TRUE ],
                   [ min_required_1m |-> 3, strict |-> FALSE ] } :
       finding' = [ check |-> "agg_coverage_5m", args |-> args,
                    df |-> check_agg_consistency_1m_to_5m_coverage(
                             data_bars, active_days, args.min_required_1m,
                             args.strict, now) ]
  /\ UNCHANGED << data_bars, derived_bars, data_ingest_state, now, reply >>
  /\ UNCHANGED run_vars
  /\ UNCHANGED ext_vars

\* agg_cov_1h = check_agg_consistency_1m_to_1h_coverage(min_required_1m = 60,
\* strict = True)
CheckAggCoverage1h ==
  /\ finding' = [ check |-> "agg_coverage_1h",
                  args |-> [ min_required_1m |-> 60, strict |-> TRUE ],
                  df |-> check_agg_consistency_1m_to_1h_coverage(
                           data_bars, active_days, 60, TRUE, now) ]
  /\ UNCHANGED << data_bars, derived_bars, data_ingest_state, now, reply >>
  /\ UNCHANGED run_vars
  /\ UNCHANGED ext_vars

NextBuckets == CheckAggCoverage5m \/ CheckAggCoverage1h

----------------------------------------------------------------------------
(***************************************************************************)
(* check_cross_timeframe_consistency applied to one bucket of 1m bars and  *)
(* the 5m bar stored for it                                                *)
(***************************************************************************)
\* the start of a bucket inside the window and of one before it
CrossBuckets == { VerifyNow - 10, VerifyNow - active_days * MinutesPerDay - 5 }

\* prices in units of 1e-6: the k-th minute of a bucket opens at
\* BasePrice + 10 k
BasePrice == 2 * rel_tol_parts
MinuteBar(id, sym, ts, base) ==
  HeapRow(id, sym, "1m", ts, base, base + 7, base - 2, base + 5, {})

\* the 1m bars of a bucket: the minutes of present, and a second row of
\* other prices at the minute again when that is a minute of the bucket
BucketBars(sym, start, present, again) ==
  { MinuteBar(1, sym, start + k, BasePrice + 10 * k) : k \in present }
    \cup { MinuteBar(2, sym, start + k, BasePrice + 10 * k + 20) : k \in { again } \cap present }

\* the deviations of a stored price from the aggregate of the five minutes
Deviations == { -4, -3, 3, 4 }
PriceFields == { "open", "high", "low", "close" }

\* the 5m bar of the five minutes of a bucket, one price of it off by d
StoredBar(sym, start, field, d) ==
  [ HeapRow(1, sym, "5m", start, BasePrice, BasePrice + 47, BasePrice - 2, BasePrice + 45, {})
      EXCEPT ![field] = @ + d ]

InitCross ==
  /\ \E start \in CrossBuckets, present \in SUBSET (0 .. 4), again \in -1 .. 4 :
       /\ Cardinality(present) >= 4
       /\ again \in present \cup { -1 }
       /\ data_bars = BucketBars("EURUSD", start, present, again)
       /\ \/ derived_bars = {}
          \/ derived_bars = { StoredBar("EURUSD", start, "open", 0) }
          \/ \E field \in PriceFields, d \in Deviations :
               derived_bars = { StoredBar("EURUSD", start, field, d) }
  /\ data_ingest_state = {}
  /\ now = VerifyNow
  /\ finding = NoFinding
  /\ NoExt
  /\ reply = NoReply
  /\ NoRun

\* cross_tf_consistency = check_cross_timeframe_consistency(active_days)
CheckCrossTimeframe ==
  /\ \E tie \in { "asc", "desc" } :
       finding' = [ check |-> "cross_timeframe_consistency", tie |-> tie,
                    df |-> check_cross_timeframe_consistency(data_bars, derived_bars,
                                                             active_days, now, tie) ]
  /\ UNCHANGED << data_bars, derived_bars, data_ingest_state, now, reply >>
  /\ UNCHANGED run_vars
  /\ UNCHANGED ext_vars

NextCross == CheckCrossTimeframe

----------------------------------------------------------------------------
(***************************************************************************)
(* check_alignment applied to derived_data_bars                            *)
(***************************************************************************)
\* a midnight, an hour that is not midnight, a multiple of five minutes that
\* is not an hour, a minute that is no multiple of five, and such a minute
\* before the window
AlignTs ==
  { VerifyNow - MinutesPerDay, VerifyNow - MinutesPerDay + MinutesPerHour,
    VerifyNow - MinutesPerDay + MinutesPerHour + 5,
    VerifyNow - MinutesPerDay + MinutesPerHour + 7,
    VerifyNow - (active_days + 1) * MinutesPerDay + 7 }
AlignTimeframes == { "5m", "1h", "1d" }
AlignKeys == { "EURUSD", dxy_symbol } \X AlignTimeframes \X AlignTs

InitAlign ==
  /\ derived_bars \in Heaps(AlignKeys, MaxAligned)
  /\ data_bars = {}
  /\ data_ingest_state = {}
  /\ now = VerifyNow
  /\ finding = NoFinding
  /\ NoExt
  /\ reply = NoReply
  /\ NoRun

\* check_alignment(conn, derived_bars_table, tf, active_days), also with a
\* timeframe run_phase_a never passes
CheckAlignment ==
  /\ \E tf \in AlignTimeframes \cup { "15m" } :
       finding' = [ check |-> "alignment", tf |-> tf,
                    outcome |-> check_alignment(derived_bars, tf, active_days, now) ]
  /\ UNCHANGED << data_bars, derived_bars, data_ingest_state, now, reply >>
  /\ UNCHANGED run_vars
  /\ UNCHANGED ext_vars

NextAlign == CheckAlignment

----------------------------------------------------------------------------
(***************************************************************************)
(* The price checks applied to data_bars                                   *)
(***************************************************************************)
\* open, high, low, close and the NULL columns of the bars examined: a
\* sound bar, a flat one, and bars with one defect or two
OhlcShapes ==
  { << 100, 104,  98, 102, {} >>,
    << 100, 100, 100, 100, {} >>,
    << 100,  98, 104, 102, {} >>,
    << 106, 104,  98, 102, {} >>,
    << 100, 104,  98,  96, {} >>,
    << 100, 120,  90, 110, {} >>,
    <<   0,   4,   0,   0, {} >>,
    <<  -2,   4,  -3,  -1, {} >>,
    << 100, 104,  98, 102, { "close" } >> }
WideShape == << 100, 120, 90, 110, {} >>

ShapeBar(id, sym, ts, shape) ==
  HeapRow(id, sym, "1m", ts, shape[1], shape[2], shape[3], shape[4], shape[5])

\* a minute of the window of both phases, one of the historical window only,
\* and one before both
OhlcTs ==
  { VerifyNow - 3, VerifyNow - (active_days + 1) * MinutesPerDay,
    VerifyNow - hist_years * YearDays * MinutesPerDay - 1 }
OhlcBars == { ShapeBar(1, k[1], k[2], k[3]) : k \in { "EURUSD", dxy_symbol } \X OhlcTs \X OhlcShapes }

\* the tables of at most n of the bars of S
RECURSIVE TablesOf(_, _)
TablesOf(S, n) ==
  IF n = 0 THEN { {} }
  ELSE LET smaller == TablesOf(S, n - 1)
       IN  smaller \cup { T \cup { r } : T \in smaller, r \in S }

\* n bars of excessive spread in the last minutes of a symbol
WideBars(sym, n) == { ShapeBar(1, sym, VerifyNow - k, WideShape) : k \in 1 .. n }

InitOhlc ==
  /\ \/ data_bars \in TablesOf(OhlcBars, MaxOhlc)
     \/ \E n \in { spread_noise_floor, spread_noise_floor + 1 } :
          data_bars = WideBars("EURUSD", n)
  /\ derived_bars = {}
  /\ data_ingest_state = {}
  /\ now = VerifyNow
  /\ finding = NoFinding
  /\ NoExt
  /\ reply = NoReply
  /\ NoRun

\* enhanced_ohlc = check_enhanced_ohlc_integrity(data_bars, "1m",
\* window_days=active_days) of the active phase
CheckEnhancedOhlc ==
  /\ finding' = [ check |-> "enhanced_ohlc_integrity", phase |-> "A",
                  df |-> check_enhanced_ohlc_integrity(data_bars, "1m",
                           now - active_days * MinutesPerDay) ]
  /\ UNCHANGED << data_bars, derived_bars, data_ingest_state, now, reply >>
  /\ UNCHANGED run_vars
  /\ UNCHANGED ext_vars

\* enhanced_ohlc_hist = check_enhanced_ohlc_integrity(data_bars, "1m",
\* window_years=hist_years) of the historical phase
CheckEnhancedOhlcHist ==
  /\ finding' = [ check |-> "enhanced_ohlc_integrity", phase |-> "B",
                  df |-> check_enhanced_ohlc_integrity(data_bars, "1m",
                           now - hist_years * YearDays * MinutesPerDay) ]
  /\ UNCHANGED << data_bars, derived_bars, data_ingest_state, now, reply >>
  /\ UNCHANGED run_vars
  /\ UNCHANGED ext_vars

\* integrity_1m = check_integrity_ohlc(data_bars, "1m", hist_years)
CheckIntegrityOhlc ==
  /\ finding' = [ check |-> "integrity_1m", phase |-> "B",
                  df |-> check_integrity_ohlc(data_bars, "1m", hist_years, now) ]
  /\ UNCHANGED << data_bars, derived_bars, data_ingest_state, now, reply >>
  /\ UNCHANGED run_vars
  /\ UNCHANGED ext_vars

NextOhlc == CheckEnhancedOhlc \/ CheckEnhancedOhlcHist \/ CheckIntegrityOhlc

----------------------------------------------------------------------------
(***************************************************************************)
(* check_dxy_component_dependency next to the writers of the bar store     *)
(***************************************************************************)
\* a DXY 1m row in derived_data_bars
DerivedDxy(ts) == HeapRow(1, dxy_symbol, "1m", ts, 1, 1, 1, 1, {})

\* the store as the writers find it, with no DXY row in derived_data_bars or
\* with one
InitDep ==
  /\ data_bars = UNION { insert_bars_batch({}, p[1], p[2], 1, 0) :
                          p \in { q \in Components \X Ts : q[1] \in start_bars(q[2]) } }
  /\ derived_bars \in { {} } \cup { { DerivedDxy(ts) } : ts \in Ts }
  /\ data_ingest_state = {}
  /\ now = 0
  /\ finding = NoFinding
  /\ NoExt
  /\ reply = NoReply
  /\ NoRun

\* dxy_component_dependency = check_dxy_component_dependency(hist_years)
CheckDxyDependency ==
  /\ finding' = [ check |-> "dxy_component_dependency",
                  df |-> check_dxy_component_dependency(derived_bars, data_bars,
                                                        hist_years, now) ]
  /\ UNCHANGED << data_bars, derived_bars, data_ingest_state, now, reply >>
  /\ UNCHANGED run_vars
  /\ UNCHANGED ext_vars

NextDep == InsertBar \/ CalcDxy \/ CheckDxyDependency

----------------------------------------------------------------------------
(***************************************************************************)
(* check_gap_density applied to bars of several timeframes                 *)
(***************************************************************************)
\* minutes one, four, five, sixty and sixty-five minutes apart
GapTs ==
  { VerifyNow - 130, VerifyNow - 65, VerifyNow - 5, VerifyNow - 4, VerifyNow }
GapTimeframes == { "1m", "5m", "1h" }
GapKeys == { "EURUSD", dxy_symbol } \X GapTimeframes \X GapTs

InitGaps ==
  /\ data_bars \in Heaps(GapKeys, MaxGapBars)
  /\ derived_bars = {}
  /\ data_ingest_state = {}
  /\ now = VerifyNow
  /\ finding = NoFinding
  /\ NoExt
  /\ reply = NoReply
  /\ NoRun

\* check_gap_density(conn, data_bars_table, tf, hist_years)
CheckGapDensityOf ==
  /\ \E tf \in GapTimeframes :
       finding' = [ check |-> "gap_density", tf |-> tf,
                    df |-> check_gap_density(data_bars, tf, hist_years, now) ]
  /\ UNCHANGED << data_bars, derived_bars, data_ingest_state, now, reply >>
  /\ UNCHANGED run_vars
  /\ UNCHANGED ext_vars

NextGaps == CheckGapDensityOf

----------------------------------------------------------------------------
(***************************************************************************)
(* calc_dxy_range_1m on stores of which a minute has no component bar, all *)
(* six, five of them, or six of which one closes at 0                      *)
(***************************************************************************)
MinuteKinds == { "none", "six", "five", "zero" }

\* the component bars of a minute of a kind
MinuteOf(ts, kind) ==
  UNION { insert_bars_batch({}, c, ts, IF kind = "zero" /\ c = "USDCHF" THEN 0 ELSE 1, 0) :
          c \in IF kind = "none" THEN {}
                ELSE IF kind = "five" THEN Components \ { "USDCHF" }
                ELSE Components }

InitRange ==
  /\ \E kinds \in [ Ts -> MinuteKinds ] :
       data_bars = UNION { MinuteOf(ts, kinds[ts]) : ts \in Ts }
  /\ derived_bars = {}
  /\ data_ingest_state = {}
  /\ now = 0
  /\ finding = NoFinding
  /\ NoExt
  /\ reply = NoReply
  /\ NoRun

NextRange == CalcDxy

----------------------------------------------------------------------------
(***************************************************************************)
(* dxy_migration_phase4_regenerate.py: main.  The script works on one      *)
(* connection that is not in autocommit mode: what it writes and does not  *)
(* commit is in txn, and is discarded when the connection is closed.       *)
(***************************************************************************)
\* the minutes of the store: one before the start date, and those of Ts
RegenTs == (start_date - 1) .. MaxTs

\* a DXY 1m row that an earlier run left in data_bars
EarlierDxy(ts) == excluded_row(ts, DxyBase, 0, 0)

InitRegen ==
  /\ \E kinds \in [ RegenTs -> MinuteKinds ], earlier \in SUBSET RegenTs :
       data_bars = UNION { MinuteOf(ts, kinds[ts]) : ts \in RegenTs }
                     \cup { EarlierDxy(ts) : ts \in earlier }
  /\ derived_bars = {}
  /\ data_ingest_state = {}
  /\ now = 1
  /\ finding = NoFinding
  /\ reply = NoReply
  /\ NoRun
  /\ step = "4.1" /\ txn = NULL /\ end_date = NULL
  /\ NoSvc

\* what the statements of the connection read
View == IF IsNull(txn) THEN data_bars ELSE Val(txn)

\* return 1, or sys.exit after an exception: the process ends, and with it
\* the connection and what it had not committed
Phase4Failed ==
  /\ step' = "exit"
  /\ exit_code' = Some(1)
  /\ txn' = NULL

\* Step 4.1: fx_info = check_fx_data_availability(conn); end_date =
\* fx_info['latest']
Step41 ==
  /\ step = "4.1"
  /\ LET fx_info == check_fx_data_availability(View)
     IN  IF IsNull(fx_info)
         THEN Phase4Failed /\ UNCHANGED end_date
         ELSE /\ end_date' = Some(Val(fx_info).latest)
              /\ step' = "4.2"
              /\ UNCHANGED << txn, exit_code >>
  /\ UNCHANGED << data_bars, now, reply >>
  /\ UNCHANGED << phase, env, pc, results, calls, message >>
  /\ UNCHANGED chk_vars
  /\ UNCHANGED svc_vars

\* Step 4.2: clear_existing_dxy_data(conn), which commits its DELETE
Step42 ==
  /\ step = "4.2"
  /\ data_bars' = IF dxy_1m(View) # {} THEN clear_existing_dxy_data(View) ELSE data_bars
  /\ step' = "4.3"
  /\ UNCHANGED << txn, end_date, now, reply >>
  /\ UNCHANGED run_vars
  /\ UNCHANGED chk_vars
  /\ UNCHANGED svc_vars

\* Step 4.3: regen_result = regenerate_dxy_data(conn, start_date, end_date),
\* which calls calc_dxy_range_1m(start_date, end_date, 1) and does not commit
Step43 ==
  /\ step = "4.3"
  /\ \E raised \in BOOLEAN :
       LET out == calc_dxy_range_1m(View, start_date, Val(end_date), 1, now, raised)
       IN  /\ reply' = out.result
           /\ IF out.result.success
              THEN /\ txn' = Some(out.table)
                   /\ step' = "4.4"
                   /\ UNCHANGED exit_code
              ELSE Phase4Failed
  /\ UNCHANGED << data_bars, end_date, now >>
  /\ UNCHANGED << phase, env, pc, results, calls, message >>
  /\ UNCHANGED chk_vars
  /\ UNCHANGED svc_vars

\* Step 4.4: dxy_info = verify_regenerated_data(conn); "No data was
\* regenerated" when total_count is 0
Step44 ==
  /\ step = "4.4"
  /\ IF total_count(View) = 0
     THEN Phase4Failed
     ELSE step' = "save" /\ UNCHANGED << txn, exit_code >>
  /\ UNCHANGED << data_bars, end_date, now, reply >>
  /\ UNCHANGED << phase, env, pc, results, calls, message >>
  /\ UNCHANGED chk_vars
  /\ UNCHANGED svc_vars

\* save_phase4_state(conn, output_dir, regeneration_info), then
\* conn.close() and return 0; an error writing the file reaches the handler
\* of main
SaveAndClose ==
  /\ step = "save"
  /\ \E written \in BOOLEAN :
       IF written
       THEN /\ step' = "exit"
            /\ exit_code' = Some(0)
            /\ txn' = NULL
       ELSE Phase4Failed
  /\ UNCHANGED << data_bars, end_date, now, reply >>
  /\ UNCHANGED << phase, env, pc, results, calls, message >>
  /\ UNCHANGED chk_vars
  /\ UNCHANGED svc_vars

NextRegen == Step41 \/ Step42 \/ Step43 \/ Step44 \/ SaveAndClose

----------------------------------------------------------------------------
(***************************************************************************)
(* ds_shared/circuit_breaker.py: CircuitBreaker.  The calls run on one     *)
(* asyncio event loop: a call runs without interruption up to await func,  *)
(* and again from the return or the exception of func to its end.          *)
(***************************************************************************)
\* CircuitBreaker(failure_threshold, recovery_timeout, expected_exception):
\* an exception of func is either an instance of expected_exception
\* ("expected") or not ("other")
CircuitBreaker(failure_threshold, recovery_timeout) ==
  [ failure_threshold |-> failure_threshold,
    recovery_timeout |-> recovery_timeout,
    failure_count |-> 0,
    last_failure_time |-> 0,
    state |-> "CLOSED" ]

should_attempt_reset(self, time_time) ==
  /\ self.state = "OPEN"
  /\ time_time - self.last_failure_time >= self.recovery_timeout

on_success(self) ==
  [ self EXCEPT !.failure_count = 0, !.state = "CLOSED" ]

\* the comparison > in place of >=
on_failure_above(self, time_time) ==
  [ self EXCEPT !.failure_count = @ + 1,
                !.last_failure_time = time_time,
                !.state = IF self.failure_count + 1 > self.failure_threshold
                          THEN "OPEN" ELSE @ ]

on_failure(self, time_time) ==
  [ self EXCEPT !.failure_count = @ + 1,
                !.last_failure_time = time_time,
                !.state = IF self.failure_count + 1 >= self.failure_threshold
                          THEN "OPEN" ELSE @ ]

reset(self) ==
  [ self EXCEPT !.failure_count = 0, !.state = "CLOSED" ]

\* a call of call(): not begun or over ("idle") with how the latest one
\* ended, or suspended in await func
IdleCall(result) == [ pc |-> "idle", result |-> result ]
AwaitingCall == [ pc |-> "awaiting", result |-> "none" ]

RecoveryTimeouts == 1 .. 2

\* a breaker as constructed, and n coroutines that call it
InitBreakerOf(n) ==
  /\ \E failure_threshold \in 1 .. MaxThreshold, recovery_timeout \in RecoveryTimeouts :
       breaker = CircuitBreaker(failure_threshold, recovery_timeout)
  /\ time = 0
  /\ tasks = [ t \in 1 .. n |-> IdleCall("none") ]
  /\ streak = 0
  /\ retry = << >>
  /\ step = "idle" /\ txn = {} /\ end_date = {}
  /\ data_bars = {}
  /\ derived_bars = {}
  /\ data_ingest_state = {}
  /\ now = 0
  /\ finding = NoFinding
  /\ reply = NoReply
  /\ NoRun

InitBreaker == InitBreakerOf(1)

InitInFlight == InitBreakerOf(MaxTasks)

\* the variables no step of a breaker changes
BreakerFrame ==
  /\ UNCHANGED retry
  /\ UNCHANGED regen_vars
  /\ UNCHANGED run_vars
  /\ UNCHANGED dxy_vars
  /\ UNCHANGED chk_vars

\* time passes
TimePasses ==
  /\ time < MaxTime
  /\ time' = time + 1
  /\ UNCHANGED << breaker, tasks, streak >>
  /\ BreakerFrame

\* call(func), up to await func or to raise Exception("Circuit breaker is
\* OPEN ...")
CallBegins ==
  /\ \E t \in DOMAIN tasks :
       /\ tasks[t].pc = "idle"
       /\ IF breaker.state = "OPEN"
          THEN IF should_attempt_reset(breaker, time)
               THEN /\ breaker' = [ breaker EXCEPT !.state = "HALF_OPEN" ]
                    /\ tasks' = [ tasks EXCEPT ![t] = AwaitingCall ]
                    /\ UNCHANGED streak
               ELSE /\ tasks' = [ tasks EXCEPT ![t] = IdleCall("rejected") ]
                    /\ streak' = 0
                    /\ UNCHANGED breaker
          ELSE /\ tasks' = [ tasks EXCEPT ![t] = AwaitingCall ]
               /\ UNCHANGED << breaker, streak >>
  /\ UNCHANGED time
  /\ BreakerFrame

\* func returns: self._on_success(); return result
FuncReturns ==
  /\ \E t \in DOMAIN tasks :
       /\ tasks[t].pc = "awaiting"
       /\ tasks' = [ tasks EXCEPT ![t] = IdleCall("returned") ]
  /\ breaker' = on_success(breaker)
  /\ streak' = 0
  /\ UNCHANGED time
  /\ BreakerFrame

\* func raises an instance of expected_exception: self._on_failure(); raise
FuncRaisesExpected ==
  /\ \E t \in DOMAIN tasks :
       /\ tasks[t].pc = "awaiting"
       /\ tasks' = [ tasks EXCEPT ![t] = IdleCall("raised") ]
  /\ breaker' = on_failure(breaker, time)
  /\ streak' = streak + 1
  /\ UNCHANGED time
  /\ BreakerFrame

\* func raises something else (with the default expected_exception =
\* Exception: a BaseException such as asyncio.CancelledError), which no
\* clause of call catches
FuncRaisesOther ==
  /\ \E t \in DOMAIN tasks :
       /\ tasks[t].pc = "awaiting"
       /\ tasks' = [ tasks EXCEPT ![t] = IdleCall("raised_other") ]
  /\ streak' = 0
  /\ UNCHANGED << breaker, time >>
  /\ BreakerFrame

\* reset()
Reset ==
  /\ breaker' = reset(breaker)
  /\ streak' = 0
  /\ UNCHANGED << time, tasks >>
  /\ BreakerFrame

\* reset() while no call is in progress
ResetBetweenCalls ==
  /\ \A t \in DOMAIN tasks : tasks[t].pc = "idle"
  /\ Reset

\* one caller, which awaits each call before the next one
NextBreaker ==
  TimePasses \/ CallBegins \/ FuncReturns \/ FuncRaisesExpected \/ FuncRaisesOther
    \/ ResetBetweenCalls

\* several callers
NextInFlight ==
  TimePasses \/ CallBegins \/ FuncReturns \/ FuncRaisesExpected \/ FuncRaisesOther
    \/ Reset

----------------------------------------------------------------------------
(***************************************************************************)
(* ds_shared/retries.py: with_exponential_backoff and retry_on_exception.  *)
(* Delays are in whole seconds; an exception is known by the attempt that  *)
(* raised it.                                                              *)
(***************************************************************************)
RECURSIVE Power(_, _)
Power(base, exponent) ==
  IF exponent = 0 THEN 1 ELSE base * Power(base, exponent - 1)

\* min(a, b)
min(a, b) == IF a <= b THEN a ELSE b

\* the delay without the cap of max_delay
backoff_delay_uncapped(base_delay, exponential_base, attempt, max_delay) ==
  base_delay * Power(exponential_base, attempt)

\* delay = min(base_delay * (exponential_base ** attempt), max_delay)
backoff_delay(base_delay, exponential_base, attempt, max_delay) ==
  min(base_delay * Power(exponential_base, attempt), max_delay)

\* delay = base_delay * (2 ** attempt)
retry_delay(base_delay, attempt) == base_delay * Power(2, attempt)

\* a helper as called, before the first attempt
RetryRun(helper, max_retries, base_delay, max_delay, exponential_base) ==
  [ helper |-> helper,
    max_retries |-> max_retries,
    base_delay |-> base_delay,
    max_delay |-> max_delay,
    exponential_base |-> exponential_base,
    attempt |-> 0,
    pc |-> "start",
    invocations |-> 0,
    sleeps |-> << >>,
    last_exception |-> NULL,
    outcome |-> NULL ]

BaseDelays == 1 .. 2
MaxDelays == { 1, 3 }
ExponentialBases == 1 .. 2

InitRetry ==
  /\ \E max_retries \in 0 .. MaxRetries, base_delay \in BaseDelays :
       \/ \E max_delay \in MaxDelays, exponential_base \in ExponentialBases :
            retry = RetryRun("with_exponential_backoff", max_retries, base_delay,
                             Some(max_delay), Some(exponential_base))
       \/ retry = RetryRun("retry_on_exception", max_retries, base_delay, NULL, NULL)
  /\ breaker = << >> /\ time = 0 /\ tasks = << >> /\ streak = 0
  /\ step = "idle" /\ txn = {} /\ end_date = {}
  /\ data_bars = {}
  /\ derived_bars = {}
  /\ data_ingest_state = {}
  /\ now = 0
  /\ finding = NoFinding
  /\ reply = NoReply
  /\ NoRun

\* the variables no step of a retry helper changes
RetryFrame ==
  /\ UNCHANGED << breaker, time, tasks, streak >>
  /\ UNCHANGED regen_vars
  /\ UNCHANGED run_vars
  /\ UNCHANGED dxy_vars
  /\ UNCHANGED chk_vars

\* the next iteration of for attempt in range(max_retries + 1), up to await
\* func
Attempt(attempt) ==
  [ retry EXCEPT !.attempt = attempt, !.pc = "awaiting", !.invocations = @ + 1 ]

\* the helper is called: the first iteration
FirstAttempt ==
  /\ retry.pc = "start"
  /\ retry' = Attempt(0)
  /\ RetryFrame

\* return await func(*args, **kwargs)
AttemptReturns ==
  /\ retry.pc = "awaiting"
  /\ retry' = [ retry EXCEPT !.pc = "returned",
                             !.outcome = Some([ result_of |-> retry.attempt ]) ]
  /\ RetryFrame

\* except Exception as e: raise on the last attempt (after the loop, in
\* retry_on_exception), else sleep for the delay
AttemptRaises ==
  /\ retry.pc = "awaiting"
  /\ LET e == retry.attempt
         delay == IF retry.helper = "with_exponential_backoff"
                  THEN backoff_delay(retry.base_delay, Val(retry.exponential_base),
                                     retry.attempt, Val(retry.max_delay))
                  ELSE retry_delay(retry.base_delay, retry.attempt)
     IN  IF retry.helper = "with_exponential_backoff"
         THEN IF retry.attempt = retry.max_retries
              THEN retry' = [ retry EXCEPT !.last_exception = Some(e),
                                           !.pc = "raised",
                                           !.outcome = Some([ exception_of |-> e ]) ]
              ELSE retry' = [ retry EXCEPT !.last_exception = Some(e),
                                           !.pc = "sleeping",
                                           !.sleeps = Append(@, delay) ]
         ELSE IF retry.attempt < retry.max_retries
              THEN retry' = [ retry EXCEPT !.last_exception = Some(e),
                                           !.pc = "sleeping",
                                           !.sleeps = Append(@, delay) ]
              ELSE retry' = [ retry EXCEPT !.last_exception = Some(e),
                                           !.pc = "raised",
                                           !.outcome = Some([ exception_of |-> e ]) ]
  /\ RetryFrame

\* func raises a BaseException that is no Exception (asyncio.CancelledError,
\* KeyboardInterrupt): no clause catches it
AttemptRaisesBase ==
  /\ retry.pc = "awaiting"
  /\ retry' = [ retry EXCEPT !.pc = "raised",
                             !.outcome = Some([ exception_of |-> retry.attempt ]) ]
  /\ RetryFrame

\* await asyncio.sleep(delay) is over: the next iteration
SleepEnds ==
  /\ retry.pc = "sleeping"
  /\ retry' = Attempt(retry.attempt + 1)
  /\ RetryFrame

NextRetry ==
  FirstAttempt \/ AttemptReturns \/ AttemptRaises \/ AttemptRaisesBase \/ SleepEnds

----------------------------------------------------------------------------
(***************************************************************************)
(* pause_resume_asset.py run on tables data_ingest_state                   *)
(***************************************************************************)
\* the symbols on the command line; BTC never has state rows
ListedSymbols == { "EURUSD", "XAGUSD", "BTC" }

\* the keys of the state rows
IngestKeys == { << "EURUSD", "1m" >>, << "EURUSD", "5m" >>, << "XAGUSD", "1m" >> }

\* what a key can hold: no row, or a row running without failures or
\* orphaned after two, paused or not; failure_streak stands for the columns
\* the script does not name
IngestKinds ==
  { NULL } \cup { Some([ status |-> v[1], failure_streak |-> v[2], pause_fetch |-> p ]) :
                    v \in { << "running", 0 >>, << "orphaned", 2 >> }, p \in BOOLEAN }

IngestTable(kinds) ==
  { [ canonical_symbol |-> k[1], timeframe |-> k[2], status |-> Val(kinds[k]).status,
      pause_fetch |-> Val(kinds[k]).pause_fetch, notes |-> NULL, updated_at |-> 0,
      failure_streak |-> Val(kinds[k]).failure_streak ] :
    k \in { x \in IngestKeys : ~ IsNull(kinds[x]) } }

InitPause ==
  /\ \E kinds \in [ IngestKeys -> IngestKinds ] : data_ingest_state = IngestTable(kinds)
  /\ data_bars = {}
  /\ derived_bars = {}
  /\ now = VerifyNow
  /\ finding = NoFinding
  /\ NoExt
  /\ reply = NoReply
  /\ NoRun

\* the command lines: one to MaxListed symbols
SymbolLists == UNION { [ 1 .. n -> ListedSymbols ] : n \in 1 .. MaxListed }

FailureKinds == { "none", "select", "update", "commit" }

\* python pause_resume_asset.py [pause|resume] SYMBOL [SYMBOL...], run once
\* on the table
RunPauseResume ==
  /\ finding = NoFinding
  /\ \E action \in { "pause", "resume" }, symbols \in SymbolLists :
       \E failures \in [ DOMAIN symbols -> FailureKinds ] :
         /\ data_ingest_state' =
              pause_resume_main(data_ingest_state, action, symbols, failures, now)
         /\ finding' = [ check |-> "pause_resume", df |-> EmptyDF,
                         action |-> action, symbols |-> symbols,
                         failures |-> failures, before |-> data_ingest_state ]
  /\ UNCHANGED << data_bars, derived_bars, now, reply >>
  /\ UNCHANGED run_vars
  /\ UNCHANGED ext_vars

NextPause == RunPauseResume

----------------------------------------------------------------------------
(***************************************************************************)
(* Specifications                                                          *)
(***************************************************************************)
\* a verification run
Spec == InitRun /\ [][NextRun]_vars

\* the writers of the bar store
SpecDxy == InitBars /\ [][NextBars]_vars

\* the checks on tables of 1m bars
SpecSeries == InitSeries /\ [][NextSeries]_vars

\* the duplicate checks on both tables
SpecDup == InitDup /\ [][NextDup]_vars

\* the aggregation coverage checks
SpecBuckets == InitBuckets /\ [][NextBuckets]_vars

\* the comparison of the stored 5m bars with their 1m bars
SpecCross == InitCross /\ [][NextCross]_vars

\* the alignment check of the derived bars
SpecAlign == InitAlign /\ [][NextAlign]_vars

\* the price checks
SpecOhlc == InitOhlc /\ [][NextOhlc]_vars

\* the component dependency check and the writers of the store
SpecDep == InitDep /\ [][NextDep]_vars

\* the gap report of each timeframe
SpecGaps == InitGaps /\ [][NextGaps]_vars

\* the calculator on stores with incomplete minutes
SpecRange == InitRange /\ [][NextRange]_vars

\* the regeneration of the DXY 1m bars
SpecRegen == InitRegen /\ [][NextRegen]_vars

\* one CircuitBreaker called by one coroutine
SpecBreaker == InitBreaker /\ [][NextBreaker]_vars

\* one CircuitBreaker called by several coroutines
SpecInFlight == InitInFlight /\ [][NextInFlight]_vars

\* one run of a retry helper
SpecRetry == InitRetry /\ [][NextRetry]_vars

\* the same on an event loop that keeps running the helper, with a func
\* that returns or raises each time it is awaited
SpecRetryLive == InitRetry /\ [][NextRetry]_vars /\ WF_vars(NextRetry)

\* runs of pause_resume_asset.py
SpecPause == InitPause /\ [][NextPause]_vars

----------------------------------------------------------------------------
(***************************************************************************)
(* Properties of a verification run (specification Spec)                   *)
(***************************************************************************)
\* the stores on which no query finds anything
CleanStoreA == [ s \in NamesA |-> CleanA(s) ]
CleanStoreB == [ s \in NamesB |-> CleanB(s) ]

\* the frames with which a query reports a defect
DefectFrames(ph, s) ==
  { d[4] : d \in { x \in Defects : x[2] = ph /\ x[3] = s } }

NoFlag(r) == \A f \in DOMAIN r.problem_flags : ~ r.problem_flags[f]
SomeFlag(r) == \E f \in DOMAIN r.problem_flags : r.problem_flags[f]

\* the connection was made
Connected == pc # "connect" /\ message # "ERROR: Failed to connect to database"

\* main is past the call of run_phase_a / run_phase_b
PastPhaseA == Connected /\ pc # "phase_a" /\ phase \in {"A", "ALL"}
PastPhaseB == /\ Connected /\ pc \notin {"phase_a", "phase_b"} /\ phase \in {"B", "ALL"}
              /\ (phase = "ALL" => results.phase_a # Absent)

\* the verdict of main was reached: the report before it was written
VerdictReached == pc = "exit" /\ results.expected_vs_actual # Absent

\* C1: when a single check of a phase raises or its query fails (the registry
\* query aside, which is no check), the phase still invokes every one of its
\* checks and returns its result; the run is not aborted.  This is to hold
\* for every check, the staleness check included.
CheckIsolation ==
  /\ (PastPhaseA /\ env.mode_a[ActiveAssets] = "ok")
       => /\ calls.A = SlotsA
          /\ \E r \in results.phase_a : DOMAIN r.data = NamesA
  /\ (PastPhaseB /\ env.mode_b[ActiveAssets] = "ok")
       => /\ calls.B = SlotsB
          /\ \E r \in results.phase_b : DOMAIN r.data = NamesB

\* C2: when the only anomalies of a phase are failed queries or raising
\* checks (the store itself holds no defect), every problem flag of the phase
\* is false, and a run whose phases meet nothing else ends with status 0.
FailedCheckIsNeutral ==
  /\ \A r \in results.phase_a : env.store_a = CleanStoreA => NoFlag(r)
  /\ \A r \in results.phase_b : env.store_b = CleanStoreB => NoFlag(r)
  /\ (VerdictReached /\ env.store_a = CleanStoreA /\ env.store_b = CleanStoreB)
       => exit_code = Some(0)

\* C3: the run ends with "All checks passed!" and status 0 exactly when its
\* verdict is reached and every problem flag of every executed phase is
\* false; a true flag of Phase A or of Phase B ends the run with status 1.
VerdictIsAndOfFlags ==
  /\ exit_code = Some(0) <=> message = "All checks passed!"
  /\ exit_code = Some(0)
       => /\ VerdictReached
          /\ \A r \in results.phase_a \cup results.phase_b : NoFlag(r)
          /\ phase \in {"A", "ALL"} => results.phase_a # Absent
          /\ phase \in {"B", "ALL"} => results.phase_b # Absent
  /\ VerdictReached
       => (exit_code = Some(0)
             <=> \A r \in results.phase_a \cup results.phase_b : NoFlag(r))
  /\ (pc = "exit" /\ \E r \in results.phase_a \cup results.phase_b : SomeFlag(r))
       => exit_code = Some(1)

\* a run of both phases on a store without defects has ended with status 0
VerdictSuccessReached ==
  /\ pc = "exit" /\ exit_code = Some(0) /\ phase = "ALL"
  /\ results.phase_a # Absent /\ results.phase_b # Absent

\* C4: whenever a check that ran in a phase reports a defect (gap detection
\* and bar counts of Phase B included), some problem flag of that phase is
\* true and the run does not end with status 0.
EveryCheckReduced ==
  /\ \A r \in results.phase_a :
       (\E s \in NamesA : env.mode_a[s] = "ok" /\ r.data[s] \in DefectFrames("A", s))
         => SomeFlag(r) /\ exit_code # Some(0)
  /\ \A r \in results.phase_b :
       (\E s \in NamesB : env.mode_b[s] = "ok" /\ r.data[s] \in DefectFrames("B", s))
         => SomeFlag(r) /\ exit_code # Some(0)

\* the earliest 1m bar the coverage query of the run sees: NULL without bars
EarliestBar == env.store_b["coverage_check"][1].earliest_ts

\* the case of the guardrail: no 1m bar, or the earliest one is later than
\* now - hist_years + grace_days, or the coverage query fails
CoverageInsufficient ==
  \/ env.mode_b["coverage_check"] # "ok"
  \/ IsNull(EarliestBar)
  \/ Val(EarliestBar) > NowDay - hist_years * YearDays + grace_days

\* C5: in Phase B, with insufficient coverage (or a failed coverage query)
\* insufficient_historical_coverage is true and the phase is not aborted: all
\* its checks are invoked and it returns; and in every Phase B result the
\* flag is the negation of coverage_guardrail_passed.
CoverageGuardrail ==
  /\ \A r \in results.phase_b :
       r.problem_flags.insufficient_historical_coverage = ~ r.coverage_guardrail_passed
  /\ (PastPhaseB /\ env.mode_b[ActiveAssets] = "ok" /\ CoverageInsufficient)
       => /\ calls.B = SlotsB
          /\ pc \in {"expected_vs_actual", "verdict", "exit"}
          /\ \E r \in results.phase_b :
               /\ r.problem_flags.insufficient_historical_coverage
               /\ DOMAIN r.data = NamesB

\* Phase B ran on a store whose earliest bar is one year old: the flag is
\* set, the other checks ran, and the run went on to its verdict
CoverageGuardrailReached ==
  /\ EarliestBar = Some(NowDay - YearDays)
  /\ calls.B = SlotsB
  /\ \E r \in results.phase_b :
       r.problem_flags.insufficient_historical_coverage /\ ~ r.coverage_guardrail_passed
  /\ VerdictReached /\ exit_code = Some(1)


----------------------------------------------------------------------------
(***************************************************************************)
(* Properties of calc_dxy_range_1m (specification SpecDxy).  Each is       *)
(* stated on every reachable store, for every call that can be made on it  *)
(* at the current time of the store.                                       *)
(***************************************************************************)

DxyKey(ts) == << dxy_symbol, "1m", ts >>
DxyRows(bars) == { r \in bars : r.canonical_symbol = dxy_symbol /\ r.timeframe = "1m" }

\* the 1m bars of component c at ts
BarsOf(bars, c, ts) ==
  { r \in bars : r.canonical_symbol = c /\ r.timeframe = "1m" /\ r.ts_utc = ts }

\* all six components have a 1m bar at ts with close > 0
AllSixPositive(bars, ts) ==
  \A c \in Components : \E r \in BarsOf(bars, c, ts) : r.close > 0

\* some component has a 1m bar at ts
SomeComponent(bars, ts) == \E c \in Components : BarsOf(bars, c, ts) # {}

\* the closes of the six components at ts, where each has a bar
ClosesAt(bars, ts) ==
  [ c \in Components |-> Some((CHOOSE r \in BarsOf(bars, c, ts) : TRUE).close) ]

\* C6: a successful call over [p_from, p_to) writes the DXY bar of ts, with
\* the price of the six closes at ts, if and only if p_from <= ts < p_to and
\* all six components have a 1m bar at ts with close > 0; every other
\* timestamp keeps the DXY rows it had (none written, none changed) and those
\* of the range that have component bars are counted as skipped.
ValidIffAllSixPositive ==
  \A p_from \in Froms, p_to \in Tos, v \in Versions :
    p_from < p_to =>
      LET out == calc_dxy_range_1m(data_bars, p_from, p_to, v, now, FALSE)
          inside == { ts \in Ts : p_from <= ts /\ ts < p_to }
          valid == { ts \in inside : AllSixPositive(data_bars, ts) }
      IN  /\ out.result.success
          /\ out.result.inserted + out.result.updated = Cardinality(valid)
          /\ out.result.skipped =
               Cardinality({ ts \in inside \ valid : SomeComponent(data_bars, ts) })
          /\ \A ts \in valid :
               LET written == RowsAt(out.table, DxyKey(ts))
               IN  /\ Cardinality(written) = 1
                   /\ \A r \in written :
                        /\ r.close = dxy_price(ClosesAt(data_bars, ts))
                        /\ r.open = r.close /\ r.high = r.close /\ r.low = r.close
                        /\ r.source = "synthetic" /\ r.ingested_at = now
          /\ \A ts \in Ts \ valid :
               RowsAt(out.table, DxyKey(ts)) = RowsAt(data_bars, DxyKey(ts))
          /\ out.table \ DxyRows(out.table) = data_bars \ DxyRows(data_bars)

\* a call has written one minute and skipped another, whose USDCHF bar is
\* missing or has close 0
ValidAndSkippedReached ==
  /\ reply.success /\ reply.inserted > 0 /\ reply.skipped > 0
  /\ \E ts \in Ts : RowsAt(data_bars, DxyKey(ts)) # {}
  /\ \E ts \in Ts : /\ RowsAt(data_bars, DxyKey(ts)) = {}
                    /\ ~ AllSixPositive(data_bars, ts)

\* C7: on every store, calling twice with the same range (and version), the
\* component bars unchanged in between, leaves after the second call the DXY
\* keys and the OHLC values of the first, no two rows with one key, and the
\* second call reports inserted = 0.
IdempotentUpsert ==
  \A p_from \in Froms, p_to \in Tos, v \in Versions :
    p_from < p_to =>
      LET first == calc_dxy_range_1m(data_bars, p_from, p_to, v, now, FALSE).table
          stored == DxyRows(first)
      IN  /\ UniqueKeys(first)
          /\ \A later \in now .. MaxClock :
               LET second == calc_dxy_range_1m(first, p_from, p_to, v, later, FALSE)
               IN  /\ { Key(r) : r \in DxyRows(second.table) }
                        = { Key(r) : r \in stored }
                   /\ \A r1 \in stored :
                        \A r2 \in RowsAt(second.table, Key(r1)) :
                          /\ r2.open = r1.open /\ r2.high = r1.high
                          /\ r2.low = r1.low /\ r2.close = r1.close
                   /\ UniqueKeys(second.table)
                   /\ second.result.success /\ second.result.inserted = 0

\* a call has found every bar it computes already stored
SecondCallReached ==
  /\ reply.success /\ reply.inserted = 0 /\ reply.updated > 0
  /\ UniqueKeys(data_bars)

\* C8, as stated: a call over a range that holds a previously written DXY
\* row, with the version the row carries, leaves every stored field of the
\* row unchanged.
ReinvokeChangesNothing ==
  \A r \in DxyRows(data_bars) :
    \A p_from \in Froms, p_to \in Tos :
      (p_from <= r.ts_utc /\ r.ts_utc < p_to) =>
        LET out == calc_dxy_range_1m(data_bars, p_from, p_to, Val(r.version), now, FALSE)
        IN  RowsAt(out.table, Key(r)) = {r}

\* C8, amended: a call over a range that holds a previously written DXY row
\* leaves the key, open, high, low, close and source of the row unchanged,
\* and its version tag when the call carries the version of the tag; it sets
\* the ingested_at of the row to the time of the call.
ReinvokeKeepsAllButIngestedAt ==
  \A p_from \in Froms, p_to \in Tos, v \in Versions :
    p_from < p_to =>
      LET out == calc_dxy_range_1m(data_bars, p_from, p_to, v, now, FALSE)
      IN  \A r \in DxyRows(data_bars) :
            (p_from <= r.ts_utc /\ r.ts_utc < p_to) =>
              LET after == RowsAt(out.table, Key(r))
              IN  /\ Cardinality(after) = 1
                  /\ \A x \in after :
                       /\ x.open = r.open /\ x.high = r.high
                       /\ x.low = r.low /\ x.close = r.close
                       /\ x.source = r.source
                       /\ v = Val(r.version) => x.version = r.version
                       /\ x.ingested_at = now

\* a call made after time 0 has updated a DXY row that an earlier call wrote
ReinvokedLaterReached ==
  /\ reply.success /\ reply.updated > 0 /\ now > 0
  /\ \E r \in DxyRows(data_bars) : r.ingested_at = now

\* C9: after a call with version v, every DXY row the call inserted or
\* updated carries the version tag v, the rows that were stored with an older
\* tag included.
VersionTagIdentifiesInvocation ==
  \A p_from \in Froms, p_to \in Tos, v \in Versions :
    p_from < p_to =>
      LET out == calc_dxy_range_1m(data_bars, p_from, p_to, v, now, FALSE)
      IN  \A ts \in Ts :
            (p_from <= ts /\ ts < p_to /\ AllSixPositive(data_bars, ts)) =>
              \A x \in RowsAt(out.table, DxyKey(ts)) : x.version = Some(v)

\* C10: a call that fails, by p_from >= p_to or by an error raised inside the
\* computation, returns success = false with an error message and leaves the
\* store as it was before the call.
FailureLeavesStore ==
  \A p_from \in Froms, p_to \in Tos, v \in Versions, raised \in BOOLEAN :
    (p_from >= p_to \/ raised) =>
      LET out == calc_dxy_range_1m(data_bars, p_from, p_to, v, now, raised)
      IN  /\ DOMAIN out.result = {"success", "error"}
          /\ out.result.success = FALSE
          /\ out.result.error # ""
          /\ out.table = data_bars

\* a call has failed on a store that holds DXY rows, and they are still there
FailedCallReached ==
  /\ reply.success = FALSE /\ reply.error = "SQLERRM"
  /\ DxyRows(data_bars) # {}

----------------------------------------------------------------------------
(***************************************************************************)
(* Properties of the checks on 1m bars (specification SpecSeries).  Each   *)
(* is stated on every table of the specification.                          *)
(***************************************************************************)
\* the 1m rows of sym that the checks of Phase A see
Seen1m(table, sym) ==
  { r \in table : /\ r.canonical_symbol = sym /\ r.timeframe = "1m"
                  /\ InWindow(r, now, active_days) }

\* C11: adding to data_bars a 1m bar of a symbol with a ts_utc in the window
\* that is equal to, or earlier than, the ts_utc of a bar the symbol has in
\* the window makes check_timestamp_monotonicity report the symbol, so that
\* the non_monotonic_timestamps flag is true.
InsertNotLaterIsReported ==
  \A sym \in SeriesSymbols, ts \in SeriesTs :
    (/\ ts >= now - active_days * MinutesPerDay
     /\ \E r \in Seen1m(data_bars, sym) : ts <= r.ts_utc)
      => LET df == check_timestamp_monotonicity(AddBar(data_bars, sym, "1m", ts),
                                                "1m", active_days, now)
         IN  sym \in Reported(df) /\ result_flag(df)

\* the symbols whose ingest state is paused or orphaned
PausedOrOrphaned ==
  { r.canonical_symbol : r \in { x \in data_ingest_state :
                                   x.pause_fetch \/ x.status = "orphaned" } }

\* the staleness counts of a table
StalenessCounts(table) ==
  check_staleness_with_thresholds("ok",
    staleness_query(table, active, active_days, now)).value.counts

\* C14: a symbol whose ingest state is paused or orphaned contributes
\* neither to the staleness warning / critical counts, which are those of
\* the table without the bars of these symbols, nor to the gap report,
\* however old its latest bar is.
PausedOrOrphanedExcluded ==
  /\ StalenessCounts(data_bars)
       = StalenessCounts({ r \in data_bars : r.canonical_symbol \notin PausedOrOrphaned })
  /\ \A sym \in PausedOrOrphaned :
       sym \notin Reported(check_gap_density(data_bars, "1m", hist_years, now))

\* the latest 1m bar of a symbol in the window of the active phase
LatestInWindow(table, sym) ==
  { r.ts_utc : r \in { x \in table : /\ x.canonical_symbol = sym /\ x.timeframe = "1m"
                                     /\ x.ts_utc >= now - active_days * MinutesPerDay
                                     /\ \A y \in table :
                                          (y.canonical_symbol = sym /\ y.timeframe = "1m")
                                            => y.ts_utc <= x.ts_utc } }

\* the active symbols whose latest bar of the window is more than some
\* minutes old
OlderThan(table, minutes) ==
  { sym \in active : \E ts \in LatestInWindow(table, sym) : now - ts > minutes }

\* the results of the active phase in which only the staleness was examined
OnlyFreshness(df) == [ name \in STRING |-> IF name = "freshness" THEN df ELSE EmptyDF ]

\* C19: check_staleness_with_thresholds reports one row per active symbol,
\* with the minutes since its latest 1m bar when it has a bar in the window
\* and a null staleness otherwise; the warning and critical counts are the
\* numbers of symbols whose numeric staleness exceeds the respective
\* threshold, symbols without data are counted in neither, and the flags
\* staleness_warning / staleness_critical are true iff the count is > 0.
StalenessReport ==
  LET out == check_staleness_with_thresholds("ok",
               staleness_query(data_bars, active, active_days, now)).value
      df == out.df
      flags == problems_a(OnlyFreshness(df), out.counts)
  IN  /\ Len(df) = Cardinality(active)
      /\ Reported(df) = active
      /\ \A i \in DOMAIN df :
           LET latest == LatestInWindow(data_bars, df[i].canonical_symbol)
           IN  IF latest = {} THEN IsNull(df[i].staleness_minutes)
               ELSE df[i].staleness_minutes = Some(now - Val(latest))
      /\ out.counts.warning
           = Cardinality(OlderThan(data_bars, staleness_warning_minutes))
      /\ out.counts.critical
           = Cardinality(OlderThan(data_bars, staleness_critical_minutes))
      /\ flags.staleness_warning <=> out.counts.warning > 0
      /\ flags.staleness_critical <=> out.counts.critical > 0

\* the staleness was examined on a table with a symbol without data, a symbol
\* exactly at the warning threshold, which is not counted, and a symbol
\* beyond the critical threshold, which is counted in both
StalenessFound ==
  /\ finding.check = "freshness"
  /\ \E i, j, k \in DOMAIN finding.df :
       /\ IsNull(finding.df[i].staleness_minutes)
       /\ finding.df[j].staleness_minutes = Some(staleness_warning_minutes)
       /\ finding.df[k].staleness_minutes = Some(staleness_critical_minutes + 1)
  /\ finding.counts = [ warning |-> 1, critical |-> 1 ]

----------------------------------------------------------------------------
(***************************************************************************)
(* Properties of check_duplicates (specification SpecDup)                  *)
(***************************************************************************)
\* the keys of the timeframes tfs that more than one row of the window has
SharedKeys(table, tfs) ==
  { Key(r) : r \in { x \in table :
                       /\ x.timeframe \in tfs /\ InWindow(x, now, active_days)
                       /\ \E y \in table : /\ y.rowid # x.rowid
                                           /\ y.ts_utc = x.ts_utc
                                           /\ y.canonical_symbol = x.canonical_symbol
                                           /\ y.timeframe = x.timeframe } }

\* the keys a DataFrame of check_duplicates reports
ReportedKeys(df) ==
  { << df[i].canonical_symbol, df[i].timeframe, df[i].ts_utc >> : i \in DOMAIN df }

DuplicatesOf(table, tfs) ==
  LET df == check_duplicates(table, tfs, active_days, now)
      shared == SharedKeys(table, tfs)
      reported == ReportedKeys(df)
  IN  /\ reported \subseteq shared
      /\ Cardinality(reported) = Len(df)
      /\ Len(df) = IF Cardinality(shared) <= dup_limit
                   THEN Cardinality(shared) ELSE dup_limit
      /\ \A i \in DOMAIN df :
           /\ df[i].rows_at_key
                = Cardinality(RowsAt(table, << df[i].canonical_symbol,
                                               df[i].timeframe, df[i].ts_utc >>))
           /\ \A k \in shared \ reported :
                df[i].rows_at_key >= Cardinality(RowsAt(table, k))
      /\ result_flag(df) <=> shared # {}

----------------------------------------------------------------------------
(***************************************************************************)
(* Properties of the aggregation coverage checks (specification            *)
(* SpecBuckets)                                                            *)
(***************************************************************************)
\* the 1m bars of sym the table holds in the bucket of width minutes that
\* starts at start
Children(table, sym, start, width) ==
  { r \in table : /\ r.canonical_symbol = sym /\ r.timeframe = "1m"
                  /\ r.ts_utc >= start /\ r.ts_utc < start + width }

\* the buckets of sym of that width that the check looks at: those with a 1m
\* bar in the window
BucketsSeen(table, sym, width) ==
  { r.ts_utc - (r.ts_utc % width) : r \in Seen1m(table, sym) }

\* the number of bad buckets a coverage DataFrame gives for sym
BadCount(df, sym) ==
  IF sym \in Reported(df)
  THEN df[CHOOSE i \in DOMAIN df : df[i].canonical_symbol = sym].value
  ELSE 0

\* C13: a 5-minute bucket that holds exactly 3 of its 5 one-minute bars is
\* counted as a bad bucket by the 5m coverage check in strict mode and is not
\* counted in relaxed mode with min_required = 3; a 1-hour bucket is counted
\* as bad by the 1h coverage check unless it holds exactly 60 one-minute
\* bars.  Each bucket is put under the check with its own bars only.
PartialBucketPolicy ==
  \A sym \in { "EURUSD" } :
    /\ \A b \in BucketsSeen(data_bars, sym, 5) :
         LET kids == Children(data_bars, sym, b, 5)
         IN  Cardinality(kids) = 3 =>
               /\ BadCount(check_agg_consistency_1m_to_5m_coverage(
                              kids, active_days, 5, TRUE, now), sym) = 1
               /\ BadCount(check_agg_consistency_1m_to_5m_coverage(
                              kids, active_days, 3, FALSE, now), sym) = 0
    /\ \A b \in BucketsSeen(data_bars, sym, MinutesPerHour) :
         LET kids == Children(data_bars, sym, b, MinutesPerHour)
         IN  BadCount(check_agg_consistency_1m_to_1h_coverage(
                        kids, active_days, 60, TRUE, now), sym)
               = IF Cardinality(kids) = 60 THEN 0 ELSE 1

----------------------------------------------------------------------------
(***************************************************************************)
(* Properties of check_cross_timeframe_consistency (specification          *)
(* SpecCross)                                                              *)
(***************************************************************************)
\* the one-minute children of a stored 5m bar
ChildrenOf(f) ==
  { r \in data_bars : /\ r.canonical_symbol = f.canonical_symbol
                      /\ r.timeframe = "1m"
                      /\ f.ts_utc <= r.ts_utc /\ r.ts_utc < f.ts_utc + 5 }

\* the children that can be the first and the last by ascending ts_utc
FirstChildren(f) == { r \in ChildrenOf(f) : \A x \in ChildrenOf(f) : r.ts_utc <= x.ts_utc }
LastChildren(f) == { r \in ChildrenOf(f) : \A x \in ChildrenOf(f) : x.ts_utc <= r.ts_utc }

\* of rows of one ts_utc, the one the order tie puts first
TieFirst(rows, tie) ==
  CHOOSE r \in rows : \A x \in rows : IF tie = "asc" THEN r.rowid <= x.rowid
                                                       ELSE r.rowid >= x.rowid

\* a price further from the stored one than rel_tol |actual| + abs_tol
OutOfTolerance(recomputed, actual) ==
  rel_tol_parts * Abs(recomputed - actual) > Abs(actual) + rel_tol_parts * abs_tol

\* the stored 5m bar differs from the recomputation from its children
Differs(f, tie) ==
  \/ OutOfTolerance(TieFirst(FirstChildren(f), tie).open, f.open)
  \/ OutOfTolerance(TieFirst(LastChildren(f), tie).close, f.close)
  \/ OutOfTolerance(CHOOSE h \in { r.high : r \in ChildrenOf(f) } :
                      \A r \in ChildrenOf(f) : r.high <= h, f.high)
  \/ OutOfTolerance(CHOOSE l \in { r.low : r \in ChildrenOf(f) } :
                      \A r \in ChildrenOf(f) : l <= r.low, f.low)

\* the stored 5m bars of the window that the claim has reported
Mismatched(sym, tie) ==
  { f \in derived_bars : /\ f.canonical_symbol = sym /\ f.timeframe = "5m"
                         /\ f.ts_utc >= now - active_days * MinutesPerDay
                         /\ Cardinality(ChildrenOf(f)) = 5
                         /\ Differs(f, tie) }

\* C15: check_cross_timeframe_consistency evaluates a stored 5m bar only
\* when its bucket has exactly 5 one-minute children, and then counts it as
\* mismatched if and only if its open, high, low or close differs from the
\* recomputation (first child's open, last child's close, max of the highs,
\* min of the lows) by more than rel_tol |actual| + abs_tol; a 5m bar with
\* fewer than 5 children is never reported.
FullBucketsCompared ==
  \A tie \in { "asc", "desc" } :
    LET df == check_cross_timeframe_consistency(data_bars, derived_bars,
                                                active_days, now, tie)
    IN  /\ \A sym \in { r.canonical_symbol : r \in data_bars \cup derived_bars } :
             sym \in Reported(df) <=> Mismatched(sym, tie) # {}
        /\ \A i \in DOMAIN df :
             df[i].value = Cardinality(Mismatched(df[i].canonical_symbol, tie))

\* the check has reported a 5m bar of five children of which only the low is
\* out of tolerance, by 3 units
MismatchFound ==
  /\ finding.check = "cross_timeframe_consistency"
  /\ Reported(finding.df) = { "EURUSD" }
  /\ Cardinality(data_bars) = 5
  /\ Cardinality({ r.ts_utc : r \in data_bars }) = 5
  /\ derived_bars = { StoredBar("EURUSD", VerifyNow - 10, "low", -3) }

----------------------------------------------------------------------------
(***************************************************************************)
(* Properties of check_alignment (specification SpecAlign)                 *)
(***************************************************************************)
\* the length of a bucket of a timeframe, in minutes
BucketMinutes(tf) ==
  IF tf = "5m" THEN 5 ELSE IF tf = "1h" THEN MinutesPerHour ELSE MinutesPerDay

\* the derived bars of a symbol and timeframe in the window that are not on
\* a bucket boundary
OffBoundary(sym, tf) ==
  { r \in derived_bars : /\ r.canonical_symbol = sym /\ r.timeframe = tf
                         /\ r.ts_utc >= now - active_days * MinutesPerDay
                         /\ r.ts_utc % BucketMinutes(tf) # 0 }

\* the results of the active phase in which only the alignment was examined
OnlyAlignment(tf, df) ==
  [ name \in STRING |-> IF name = "alignment_" \o tf THEN df ELSE EmptyDF ]

\* C16: check_alignment counts a derived bar of timeframe 5m, 1h or 1d as
\* misaligned exactly when its ts_utc is not on the bucket boundary of the
\* timeframe, the flag misaligned_5m / 1h / 1d is true iff some symbol has
\* such a bar in the window, and any other timeframe is rejected with an
\* error.
MisalignedCounted ==
  /\ \A tf \in AlignTimeframes :
       LET out == check_alignment(derived_bars, tf, active_days, now)
           df == safe_check(out)
           flags == problems_a(OnlyAlignment(tf, df), [ warning |-> 0, critical |-> 0 ])
           symbols == { r.canonical_symbol : r \in derived_bars }
       IN  /\ ~ out.raised
           /\ Reported(df) = { sym \in symbols : OffBoundary(sym, tf) # {} }
           /\ \A i \in DOMAIN df :
                df[i].value = Cardinality(OffBoundary(df[i].canonical_symbol, tf))
           /\ flags["misaligned_" \o tf] <=> \E sym \in symbols : OffBoundary(sym, tf) # {}
  /\ \A tf \in { r.timeframe : r \in derived_bars } \cup { "15m", "1m" } :
       tf \notin AlignTimeframes => check_alignment(derived_bars, tf, active_days, now).raised

\* the check has counted a 1h bar that is on a multiple of five minutes but
\* not on the hour, next to a 5m bar of the same minute, which is aligned
MisalignedFound ==
  /\ finding.check = "alignment" /\ finding.tf = "1h"
  /\ ~ finding.outcome.raised
  /\ Reported(finding.outcome.value) = { "EURUSD" }
  /\ \E r, q \in derived_bars :
       /\ r.timeframe = "1h" /\ q.timeframe = "5m"
       /\ r.ts_utc = q.ts_utc /\ minute_of(r.ts_utc) = 5

----------------------------------------------------------------------------
(***************************************************************************)
(* Properties of the price checks (specification SpecOhlc)                 *)
(***************************************************************************)
\* the 1m bars of a symbol in the window of the active phase
ActiveBars(sym) ==
  { r \in data_bars : /\ r.canonical_symbol = sym /\ r.timeframe = "1m"
                      /\ r.ts_utc >= now - active_days * MinutesPerDay }

\* the 1m bars of a symbol in the window of the historical phase
HistBars(sym) ==
  { r \in data_bars : /\ r.canonical_symbol = sym /\ r.timeframe = "1m"
                      /\ r.ts_utc >= now - hist_years * YearDays * MinutesPerDay }

\* a column holds a value
Has(r, col) == col \notin r.nulls

\* C17: check_enhanced_ohlc_integrity reports a symbol whenever, in the
\* window, it has at least one bar with high < low, open outside [low, high],
\* close outside [low, high] or zero range (high = low), or has more bars of
\* excessive spread than the noise floor; a symbol with none of these is not
\* reported.
EnhancedOhlcReported ==
  LET df == check_enhanced_ohlc_integrity(data_bars, "1m", now - active_days * MinutesPerDay)
      defect(r) ==
        \/ Has(r, "high") /\ Has(r, "low") /\ r.high < r.low
        \/ Has(r, "open") /\ Has(r, "low") /\ r.open < r.low
        \/ Has(r, "open") /\ Has(r, "high") /\ r.open > r.high
        \/ Has(r, "close") /\ Has(r, "low") /\ r.close < r.low
        \/ Has(r, "close") /\ Has(r, "high") /\ r.close > r.high
        \/ Has(r, "high") /\ Has(r, "low") /\ r.high = r.low
  IN  \A sym \in { r.canonical_symbol : r \in data_bars } :
        sym \in Reported(df)
          <=> \/ \E r \in ActiveBars(sym) : defect(r)
              \/ Cardinality({ r \in ActiveBars(sym) : excessive_spread(r) })
                   > spread_noise_floor

\* a bar that satisfies the bar invariants
SoundBar(r) ==
  /\ r.nulls \cap { "open", "high", "low", "close" } = {}
  /\ r.open > 0 /\ r.high > 0 /\ r.low > 0 /\ r.close > 0
  /\ r.high >= r.low
  /\ r.low <= r.open /\ r.open <= r.high
  /\ r.low <= r.close /\ r.close <= r.high

\* C18: check_integrity_ohlc reports a symbol if and only if at least one of
\* its bars in the window violates the bar invariants: a symbol is absent
\* from the result exactly when every one of its bars has non-null, strictly
\* positive open, high, low and close with high >= low, low <= open <= high
\* and low <= close <= high.
CleanSymbolsAbsent ==
  LET df == check_integrity_ohlc(data_bars, "1m", hist_years, now)
  IN  \A sym \in { r.canonical_symbol : r \in data_bars } :
        sym \notin Reported(df) <=> \A r \in HistBars(sym) : SoundBar(r)

\* the check has reported a symbol for a bar that closes below its low, and
\* not the symbol whose bars are sound or before the window
UnsoundFound ==
  /\ finding.check = "integrity_1m"
  /\ Reported(finding.df) = { "EURUSD" }
  /\ \E r \in HistBars("EURUSD") : r.close < r.low /\ r.open >= r.low /\ ~ nonpositive_ohlc(r)
  /\ \E r \in data_bars : r.canonical_symbol = dxy_symbol

----------------------------------------------------------------------------
(***************************************************************************)
(* Properties of check_dxy_component_dependency (specification SpecDep)    *)
(***************************************************************************)
\* the minutes of the stored DXY 1m bars of the historical window
StoredDxyMinutes ==
  { r.ts_utc : r \in { x \in data_bars \cup derived_bars :
      /\ x.canonical_symbol = dxy_symbol /\ x.timeframe = "1m"
      /\ x.ts_utc >= now - hist_years * YearDays * MinutesPerDay } }

\* the results of the historical phase in which only the dependency was
\* examined
OnlyDependency(df) ==
  [ name \in STRING |-> IF name = "dxy_component_dependency" THEN df ELSE EmptyDF ]

\* C20: the component dependency check examines every stored DXY 1m bar of
\* the historical window, the bars the calculator wrote included, and counts
\* the minutes at which one of the six components has no 1m bar or a
\* non-positive close against the total of DXY minutes;
\* dxy_component_dependency_fail is true iff that count is > 0.
EveryDxyBarExamined ==
  LET df == check_dxy_component_dependency(derived_bars, data_bars, hist_years, now)
      bad == { ts \in StoredDxyMinutes : ~ AllSixPositive(data_bars, ts) }
  IN  /\ df[1].dxy_total_minutes_checked = Cardinality(StoredDxyMinutes)
      /\ df[1].value = Cardinality(bad)
      /\ problems_b(OnlyDependency(df), TRUE).dxy_component_dependency_fail <=> bad # {}

----------------------------------------------------------------------------
(***************************************************************************)
(* Properties of check_gap_density (specification SpecGaps)                *)
(***************************************************************************)
\* one bar interval of a timeframe, in minutes
BarInterval(tf) ==
  IF tf = "1m" THEN 1 ELSE IF tf = "5m" THEN 5 ELSE MinutesPerHour

\* the bars of a symbol and timeframe in the historical window, ordered by
\* ts_utc
BarsInOrder(sym, tf) ==
  SortBy({ r \in data_bars : /\ r.canonical_symbol = sym /\ r.timeframe = tf
                             /\ r.ts_utc >= now - hist_years * YearDays * MinutesPerDay },
         LAMBDA a, b : \/ a.ts_utc < b.ts_utc
                       \/ (a.ts_utc = b.ts_utc /\ a.rowid < b.rowid))

\* the differences of the adjacent pairs of a sequence of bars
AdjacentGaps(bars) == [ i \in 1 .. Len(bars) - 1 |-> bars[i + 1].ts_utc - bars[i].ts_utc ]

\* the gap report of a timeframe is the one of the claim
GapReportOf(tf) ==
  LET df == check_gap_density(data_bars, tf, hist_years, now)
  IN  /\ Reported(df) = { sym \in { r.canonical_symbol : r \in data_bars } :
                            Len(BarsInOrder(sym, tf)) >= 2 }
      /\ \A i \in DOMAIN df :
           LET gaps == AdjacentGaps(BarsInOrder(df[i].canonical_symbol, tf))
           IN  /\ df[i].value
                    = Cardinality({ k \in DOMAIN gaps : gaps[k] > BarInterval(tf) })
               /\ \A k \in DOMAIN gaps : gaps[k] <= df[i].max_gap
               /\ \E k \in DOMAIN gaps : gaps[k] = df[i].max_gap

\* C21: for a symbol's bars of timeframe tf in the window ordered by ts_utc,
\* check_gap_density reports gap_events = the number of adjacent pairs whose
\* difference exceeds one bar interval of tf and max_gap = the largest
\* adjacent difference, for every timeframe; a symbol with fewer than two
\* bars in the window is not reported.
GapEventsPerInterval == \A tf \in GapTimeframes : GapReportOf(tf)

----------------------------------------------------------------------------
(***************************************************************************)
(* Properties of the counts calc_dxy_range_1m returns (specification       *)
(* SpecRange)                                                              *)
(***************************************************************************)
\* the timestamps of [p_from, p_to) at which some component has a 1m bar
ComponentMinutes(p_from, p_to) ==
  { r.ts_utc : r \in { x \in data_bars : /\ x.canonical_symbol \in Components
                                         /\ x.timeframe = "1m"
                                         /\ p_from <= x.ts_utc /\ x.ts_utc < p_to } }

\* C22: for any successful call of calc_dxy_range_1m with from < to,
\* inserted + updated is the number of timestamps in [from, to) at which all
\* six components have a 1m bar with close > 0, skipped is the number of
\* timestamps in [from, to) at which a component bar exists but the tuple of
\* six is not valid, and no row with ts_utc outside [from, to) or of a symbol
\* other than DXY is modified.
RangeCounts ==
  \A p_from \in Froms, p_to \in Tos :
    LET out == calc_dxy_range_1m(data_bars, p_from, p_to, 1, now, FALSE)
        minutes == ComponentMinutes(p_from, p_to)
        valid == { ts \in minutes : AllSixPositive(data_bars, ts) }
        framed(r) == \/ r.canonical_symbol # dxy_symbol
                     \/ r.ts_utc < p_from \/ r.ts_utc >= p_to
    IN  (out.result.success /\ p_from < p_to)
          => /\ out.result.inserted + out.result.updated = Cardinality(valid)
             /\ out.result.skipped = Cardinality(minutes \ valid)
             /\ { r \in data_bars : framed(r) } = { r \in out.table : framed(r) }

\* a call over both minutes of the store has written the bar of the first
\* and skipped the second, at which USDCHF is missing or not positive
WrittenAndSkipped ==
  /\ reply.success
  /\ reply.inserted + reply.updated = 1
  /\ reply.skipped = 1
  /\ \E r \in data_bars : r.canonical_symbol = dxy_symbol /\ r.source = "synthetic"

----------------------------------------------------------------------------
(***************************************************************************)
(* Properties of dxy_migration_phase4_regenerate (specification SpecRegen) *)
(***************************************************************************)
\* the latest timestamp of a 1m component bar from the start date on
LatestFx ==
  CHOOSE m \in RegenTs :
    /\ \E c \in Components : m >= start_date /\ BarsOf(data_bars, c, m) # {}
    /\ \A ts \in RegenTs : (\E c \in Components : BarsOf(data_bars, c, ts) # {}) => ts <= m

\* C23: after dxy_migration_phase4_regenerate completed successfully,
\* data_bars holds a DXY 1m bar for every timestamp from the start date up
\* to and including the latest FX component timestamp at which all six
\* components have close > 0, and holds no DXY 1m bar that this regeneration
\* did not produce.
AllDxyRegenerated ==
  (step = "exit" /\ exit_code = Some(0))
    => /\ \A ts \in start_date .. LatestFx :
            AllSixPositive(data_bars, ts) => \E r \in dxy_1m(data_bars) : r.ts_utc = ts
       /\ \A r \in dxy_1m(data_bars) :
            /\ r.version = Some(1) /\ r.ingested_at = now
            /\ r.ts_utc >= start_date /\ AllSixPositive(data_bars, r.ts_utc)

----------------------------------------------------------------------------
(***************************************************************************)
(* The parameter strict of the coverage checks (specification SpecBuckets) *)
(***************************************************************************)
\* the buckets of sym of that width that begin inside the window of the
\* check
BucketsInside(table, sym, width) ==
  { b \in BucketsSeen(table, sym, width) : b >= now - active_days * MinutesPerDay }

\* the bad count a coverage check must give for one bucket of rows under
\* the policy of strict: the full complement when strict, the floor
\* min_required_1m when not
BadUnderPolicy(kids, full, min_required_1m, strict) ==
  IF Cardinality(kids) < (IF strict THEN full ELSE min_required_1m) THEN 1 ELSE 0

\* C24: with strict = True the 5m and the 1h coverage checks count a bucket
\* as bad whenever it has fewer than 5, respectively 60, one-minute bars,
\* whatever min_required_1m is passed; with strict = False a bucket is bad
\* when it has fewer than min_required_1m bars.  Each bucket that begins in
\* the window is put under the check with its own bars only.
StrictCountsPartialBuckets ==
  \A sym \in { "EURUSD" } : \A strict \in BOOLEAN :
    /\ \A b \in BucketsInside(data_bars, sym, 5) : \A floor \in 3 .. 5 :
         LET kids == Children(data_bars, sym, b, 5)
         IN  BadCount(check_agg_consistency_1m_to_5m_coverage(
                        kids, active_days, floor, strict, now), sym)
               = BadUnderPolicy(kids, 5, floor, strict)
    /\ \A b \in BucketsInside(data_bars, sym, MinutesPerHour) :
         \A floor \in MinutesPerHour - MaxGone .. MinutesPerHour :
           LET kids == Children(data_bars, sym, b, MinutesPerHour)
           IN  BadCount(check_agg_consistency_1m_to_1h_coverage(
                          kids, active_days, floor, strict, now), sym)
                 = BadUnderPolicy(kids, MinutesPerHour, floor, strict)

----------------------------------------------------------------------------
(***************************************************************************)
(* Properties of CircuitBreaker (specifications SpecBreaker, SpecInFlight) *)
(***************************************************************************)
\* the breaker is OPEN and less than recovery_timeout has elapsed since the
\* last recorded failure
OpenAndWaiting ==
  /\ breaker.state = "OPEN"
  /\ time - breaker.last_failure_time < breaker.recovery_timeout

\* a step in which call t begins
Begins(t) == tasks[t].pc = "idle" /\ tasks'[t] # tasks[t]

\* after failure_threshold calls in a row whose func raised
\* expected_exception the state is OPEN
OpenAfterThreshold ==
  (/\ streak >= breaker.failure_threshold
   /\ tasks[1] = IdleCall("raised")) => breaker.state = "OPEN"

\* a call that begins while the breaker is OPEN and waiting raises without
\* awaiting func, and leaves the breaker as it is
RejectedWhileOpen ==
  (OpenAndWaiting /\ Begins(1)) =>
     /\ tasks'[1] = IdleCall("rejected")
     /\ breaker' = breaker

\* C25: after failure_threshold consecutive calls whose function raises
\* expected_exception the state is OPEN; while the state is OPEN and less
\* than recovery_timeout has elapsed since the last recorded failure, call()
\* raises without invoking the function and without changing the state or
\* the failure count.
OpensAndRejects == []OpenAfterThreshold /\ [][RejectedWhileOpen]_vars

\* the breaker opened at the largest threshold and has turned a call away
RejectedAfterOpening ==
  /\ breaker.failure_threshold = MaxThreshold
  /\ breaker.failure_count >= breaker.failure_threshold
  /\ OpenAndWaiting
  /\ tasks[1] = IdleCall("rejected")

\* a step in which call t, suspended in await func, ends
Ends(t) == tasks[t].pc = "awaiting" /\ tasks'[t].pc = "idle"

\* a call that begins when the breaker is OPEN and recovery_timeout has
\* elapsed moves it to HALF_OPEN and awaits func
TrialBegins ==
  (should_attempt_reset(breaker, time) /\ Begins(1)) =>
     /\ breaker'.state = "HALF_OPEN"
     /\ tasks'[1] = AwaitingCall

\* the end of the trial call: CLOSED with no failure counted when func
\* returned, OPEN when func raised
TrialSettles ==
  (breaker.state = "HALF_OPEN" /\ Ends(1)) =>
     IF tasks'[1].result = "returned"
     THEN breaker'.state = "CLOSED" /\ breaker'.failure_count = 0
     ELSE breaker'.state = "OPEN"

\* the same, for the exceptions call catches only
TrialSettlesExpected ==
  (breaker.state = "HALF_OPEN" /\ Ends(1) /\ tasks'[1].result # "raised_other") =>
     IF tasks'[1].result = "returned"
     THEN breaker'.state = "CLOSED" /\ breaker'.failure_count = 0
     ELSE breaker'.state = "OPEN"

\* C26: when the state is OPEN and at least recovery_timeout has elapsed
\* since the last recorded failure, the next call() moves the breaker to
\* HALF_OPEN and invokes the function; if the trial call succeeds the
\* breaker becomes CLOSED with failure count 0, and if it fails in any way
\* the breaker returns to OPEN.
TrialCallDecides == [][TrialBegins /\ TrialSettles]_vars

\* what holds of the trial call: a failure the breaker expects reopens it
TrialCallDecidesExpected == [][TrialBegins /\ TrialSettlesExpected]_vars

\* a step taken while the breaker is OPEN and waiting, other than reset(),
\* does not close the breaker, and no call that begins in it awaits func
HoldsWhileWaiting ==
  (OpenAndWaiting /\ ~ Reset) =>
     /\ breaker'.state # "CLOSED"
     /\ \A t \in DOMAIN tasks : Begins(t) => tasks'[t].pc # "awaiting"

\* the same without the calls that were in flight when the breaker opened:
\* no call that begins is let through, and a step in which no call ends
\* does not close the breaker
HoldsForNewCalls ==
  (OpenAndWaiting /\ ~ Reset) =>
     /\ (\A t \in DOMAIN tasks : ~ Ends(t)) => breaker'.state # "CLOSED"
     /\ \A t \in DOMAIN tasks : Begins(t) => tasks'[t].pc # "awaiting"

\* C28: with several calls in flight on one CircuitBreaker, once the breaker
\* is OPEN it does not become CLOSED, and no newly started call has its
\* function invoked, before recovery_timeout has elapsed since the last
\* recorded failure, unless reset() is called; a call in flight when the
\* breaker opened cannot close it by succeeding.
OpenUntilTimeout == [][HoldsWhileWaiting]_vars

\* what holds with calls in flight: new calls are turned away
NewCallsTurnedAway == [][HoldsForNewCalls]_vars

----------------------------------------------------------------------------
(***************************************************************************)
(* Properties of the retry helpers (specification SpecRetryLive)           *)
(***************************************************************************)
\* the helper has returned or raised
RetryOver == retry.pc \in { "returned", "raised" }

\* at most max_retries + 1 invocations; the result returned is that of the
\* latest invocation; when max_retries + 1 attempts have failed the helper
\* raises the exception of the last of them; a sleep of
\* with_exponential_backoff is at most max_delay; there is one sleep
\* between two attempts and none after the final one
RetryBounds ==
  /\ retry.invocations <= retry.max_retries + 1
  /\ retry.pc = "returned" =>
       Val(retry.outcome) = [ result_of |-> retry.invocations - 1 ]
  /\ retry.pc = "raised" =>
       Val(retry.outcome) = [ exception_of |-> retry.invocations - 1 ]
  /\ (/\ retry.invocations = retry.max_retries + 1
      /\ retry.last_exception = Some(retry.max_retries)) => retry.pc = "raised"
  /\ retry.helper = "with_exponential_backoff" =>
       \A i \in DOMAIN retry.sleeps : retry.sleeps[i] <= Val(retry.max_delay)
  /\ Len(retry.sleeps) = IF retry.pc = "sleeping" THEN retry.invocations
                         ELSE IF retry.pc = "start" THEN 0
                         ELSE retry.invocations - 1
  /\ retry.pc = "sleeping" => retry.invocations <= retry.max_retries

\* C27: with_exponential_backoff and retry_on_exception invoke the function
\* at most max_retries + 1 times, return the result of the first attempt
\* that succeeds without further attempts, and terminate by raising the last
\* attempt's exception when all max_retries + 1 attempts fail;
\* with_exponential_backoff never sleeps longer than max_delay, and neither
\* helper sleeps after the final attempt.
RetriesBoundedAndOver == []RetryBounds /\ <>RetryOver

\* with_exponential_backoff has raised after MaxRetries + 1 failed attempts,
\* and its last sleep was cut to max_delay
AllAttemptsFailed ==
  /\ retry.helper = "with_exponential_backoff"
  /\ retry.pc = "raised"
  /\ retry.invocations = MaxRetries + 1
  /\ retry.last_exception = Some(MaxRetries)
  /\ retry.sleeps[MaxRetries] = Val(retry.max_delay)
  /\ retry.base_delay * Power(Val(retry.exponential_base), MaxRetries - 1)
       > Val(retry.max_delay)

----------------------------------------------------------------------------
(***************************************************************************)
(* The duplicate flag and the monotonicity flag of Phase A (specification  *)
(* SpecDup)                                                                *)
(***************************************************************************)
\* what run_phase_a gets from the two checks of the 1m bars of data_bars
dup_data == check_duplicates(data_bars, dup_tfs_data, active_days, now)
monotonic_1m == check_timestamp_monotonicity(data_bars, "1m", active_days, now)

\* the flags of Phase A when the other checks find nothing
FlagsOfBars ==
  problems_a([ name \in STRING |->
                 IF name = "duplicates_data_bars" THEN dup_data
                 ELSE IF name = "timestamp_monotonicity" THEN monotonic_1m
                 ELSE EmptyDF ],
             [ warning |-> 0, critical |-> 0 ])

\* the symbols with two 1m bars of one timestamp in the window
SymbolsWithSharedTs ==
  { r.canonical_symbol :
      r \in { x \in data_bars :
                /\ x.timeframe = "1m" /\ InWindow(x, now, active_days)
                /\ \E y \in data_bars :
                     /\ y # x /\ y.canonical_symbol = x.canonical_symbol
                     /\ y.timeframe = "1m" /\ y.ts_utc = x.ts_utc } }

----------------------------------------------------------------------------
(***************************************************************************)
(* Properties of pause_resume_asset.py (specification SpecPause)           *)
(***************************************************************************)
\* the symbols of the last run whose iteration raised nothing
Processed ==
  { finding.symbols[i] : i \in { j \in DOMAIN finding.symbols : finding.failures[j] = "none" } }

Listed == { finding.symbols[i] : i \in DOMAIN finding.symbols }

\* a row without the columns the script writes
Untouched(r) ==
  [ canonical_symbol |-> r.canonical_symbol, timeframe |-> r.timeframe,
    status |-> r.status, failure_streak |-> r.failure_streak ]

\* the pause flag of each key
PauseFlags(state) ==
  { << r.canonical_symbol, r.timeframe, r.pause_fetch >> : r \in state }

\* C30: a run sets pause_fetch to the requested value on every state row of
\* each listed symbol, whatever failed on the symbols before it; it leaves
\* the status and the failure streak of every row and the rows of unlisted
\* symbols unchanged, and creates no row; the same command run again gives
\* the same pause_fetch values.
PauseSetsFlagOnly ==
  finding.check = "pause_resume" =>
    /\ \A r \in data_ingest_state :
         r.canonical_symbol \in Processed => r.pause_fetch = (finding.action = "pause")
    /\ { Untouched(r) : r \in data_ingest_state } = { Untouched(r) : r \in finding.before }
    /\ { r \in data_ingest_state : r.canonical_symbol \notin Listed }
         = { r \in finding.before : r.canonical_symbol \notin Listed }
    /\ LET none == [ i \in DOMAIN finding.symbols |-> "none" ]
           once == pause_resume_main(finding.before, finding.action,
                                     finding.symbols, none, now)
           twice == pause_resume_main(once, finding.action, finding.symbols, none, now)
       IN  /\ PauseFlags(twice) = PauseFlags(once)
           /\ finding.failures = none => data_ingest_state = once

\* a run of two symbols with rows: the first failed, the second had its
\* flag changed, next to a symbol with no rows that got none
SecondSymbolDone ==
  /\ finding.check = "pause_resume"
  /\ Len(finding.symbols) = 2
  /\ finding.failures[1] # "none" /\ finding.failures[2] = "none"
  /\ finding.symbols[1] # finding.symbols[2]
  /\ \E r \in finding.before : r.canonical_symbol = finding.symbols[1]
  /\ \E r \in finding.before :
       /\ r.canonical_symbol = finding.symbols[2]
       /\ r.pause_fetch # (finding.action = "pause")
  /\ \A r \in data_ingest_state :
       r.canonical_symbol = finding.symbols[2] => r.pause_fetch = (finding.action = "pause")

\* a run that listed a symbol without state rows
NoRowsListed ==
  /\ finding.check = "pause_resume"
  /\ "BTC" \in Listed

====
